---- MODULE Spec2Model ----
(***************************************************************************)
(* Optiflow (src/opticalflow.py): the stroke store, the undo/redo history, *)
(* the pointer-driven stroke capture, the eraser, keyframe switching, the  *)
(* clipboard and the interpolation control surface of OptiflowApp.         *)
(*                                                                         *)
(* Points are pairs <<x, y>> of canvas coordinates.  A stroke is a         *)
(* sequence of points, a buffer (self.strokes, a Frame, a history entry)   *)
(* is a sequence of strokes.  Python lists have value semantics here:      *)
(* every store into keyframes, history, redo_stack goes through            *)
(* copy.deepcopy in the source.                                            *)
(*                                                                         *)
(* Coordinates are kept on the integer grid.  Pointer events carry integer *)
(* display coordinates (Tk event.x / event.y); with scale_factor 0.5 and   *)
(* zoom_factor 1.0 a canvas coordinate is twice the display coordinate.    *)
(***************************************************************************)
EXTENDS Integers, Sequences, FiniteSets, TLC

(***************************************************************************)
(* Program constants (OptiflowApp.__init__).                               *)
(***************************************************************************)
max_history == 50
canvas_width == 1920
canvas_height == 1080
eraser_size == 20
display_width == 960
display_height == 540
max_spacing == 10

(***************************************************************************)
(* Bounds of the model.                                                    *)
(***************************************************************************)
MaxSteps == 5
MaxEditSteps == 9
MaxHistSteps == 5
MaxCommits == 60
MaxEraseSteps == 3
MaxCaptureSteps == 4
\* handler calls in a behaviour of SpecFrames
MaxFrameSteps == 8
TraceLen == 3

\* Pointer samples, in display coordinates relative to the canvas widget.
\* <<-10, 10>> lies left of the surface, the others inside it.
Samples == { <<-10, 10>>, <<10, 10>>, <<40, 10>> }

\* Pointer samples of the single-frame editing specification, all inside.
EditSamples == { <<10, 10>>, <<20, 10>>, <<40, 10>> }

\* Texts the user can type into the keyframe / start / end / count entries.
EntryTexts == { "1", "2", "3", "x" }

\* Start / end / inbetweens entries of the interpolation panel; the first
\* triple is the panel's default.
InterpInputs ==
  { << "1", "2", "3" >>, << "1", "3", "1" >>, << "1", "2", "x" >>, << "1", "2", "0" >> }

VARIABLES
  keyframes,          \* self.keyframes : dict frame number -> buffer
  current_keyframe,   \* self.current_keyframe
  strokes,            \* self.strokes, the Working Buffer
  current_stroke,     \* self.current_stroke, the accumulator
  is_drawing,         \* self.is_drawing
  current_tool,       \* self.current_tool
  history,            \* self.history
  redo_stack,         \* self.redo_stack
  erase_state_saved,  \* attribute erase_state_saved: "absent", "True", "False"
  last_xy,            \* attributes last_x, last_y: <<>> when absent, else <<x, y>>
  last_event,         \* attributes last_event_x, last_event_y: <<>> when absent
  sys_clipboard,      \* the Tk clipboard text, decoded: "empty" or a payload
  animation_running,  \* self.animation_running
  animation_current_frame,    \* attribute: << >> when absent, else << n >>
  animation_current_strokes,  \* attribute: << >> when absent, else << buffer >>
  pending,            \* the show_frame calls scheduled with root.after and not
                      \* yet fired, oldest first: the frame_nums of the closure,
                      \* the index argument, and whether stop_animation has run
                      \* since the playback that scheduled the call started
  play_pre,           \* the keyframe and buffer at the start of the playback
  steps,              \* number of handler invocations so far
  oplog,              \* the last TraceLen handler invocations, each with the
                      \* buffer and keyframe it started from
  drag,               \* bookkeeping of the current / last pointer drag
  copied,             \* the buffer at the last copy_strokes call, as long as
                      \* nothing else has written the system clipboard since
  call,               \* the arguments of a direct call of a function of the
                      \* program, << >> when there is none
  result              \* << v >> once the call has returned v, else << >>

vars == << keyframes, current_keyframe, strokes, current_stroke, is_drawing,
           current_tool, history, redo_stack, erase_state_saved, last_xy,
           last_event, sys_clipboard, animation_running,
           animation_current_frame, animation_current_strokes, pending,
           play_pre, steps, oplog, drag, copied, call, result >>

\* The playback state, which only play_animation, stop_animation and the
\* show_frame callback touch.
playback == << animation_running, animation_current_frame,
              animation_current_strokes, pending, play_pre >>

(***************************************************************************)
(* Arithmetic helpers.                                                     *)
(***************************************************************************)
Abs(n) == IF n < 0 THEN -n ELSE n

Min2(a, b) == IF a <= b THEN a ELSE b

Max2(a, b) == IF a >= b THEN a ELSE b

\* n / d for a float quotient the source computes, d # 0, kept on the
\* integer grid (rounded towards minus infinity when it is not exact).
Div(n, d) == IF d < 0 THEN (-n) \div (-d) ELSE n \div d

\* n / d <= k  and  k <= n / d, decided exactly.
QLeq(n, d, k) == IF d > 0 THEN n <= k * d ELSE n >= k * d

QGeq(n, d, k) == IF d > 0 THEN n >= k * d ELSE n <= k * d

RECURSIVE SeqConcat(_)
\* list.extend over a sequence of sequences: the concatenation.
SeqConcat(ss) == IF ss = << >> THEN << >> ELSE Head(ss) \o SeqConcat(Tail(ss))

\* The last min(n, Len(s)) elements of s.
LastN(s, n) == IF Len(s) <= n THEN s ELSE SubSeq(s, Len(s) - n + 1, Len(s))

\* rel / (self.scale_factor * self.zoom_factor) with 0.5 * 1.0.
ToCanvas(v) == 2 * v

\* 0 <= rel_x < self.display_width and 0 <= rel_y < self.display_height
InCanvas(p) == /\ 0 <= p[1] /\ p[1] < display_width
               /\ 0 <= p[2] /\ p[2] < display_height

(***************************************************************************)
(* History Manager.                                                        *)
(***************************************************************************)
\* save_state: the history after the push, oldest entry evicted above the cap.
\* (The redo stack is cleared by the caller's redo_stack' = << >>.)
\* save_state without the capacity check.
save_state_unbounded(h, buf) == Append(h, buf)

\* save_state evicting the newest of the old entries instead of the oldest.
save_state_evict_newest(h, buf) ==
  LET h1 == Append(h, buf)
  IN  IF Len(h1) > max_history
        THEN SubSeq(h, 1, Len(h) - 1) \o << buf >>
        ELSE h1

save_state(h, buf) ==
  LET h1 == Append(h, buf)
  IN  IF Len(h1) > max_history THEN Tail(h1) ELSE h1

\* redraw_canvas: its only effect on the document state is to reset the
\* erase_state_saved flag when the attribute exists.
redraw_canvas(flag) == IF flag = "absent" THEN "absent" ELSE "False"

\* The handlers whose succession the log follows; any other handler starts
\* the log afresh.
Tracked == { "commit", "end_stroke", "undo", "redo" }

\* copied before any copy_strokes call
NoCopy == [ valid |-> FALSE, buf |-> << >> ]

\* The bookkeeping every handler does: count the step and log the handler
\* with the buffer it started from.
Log(op) ==
  /\ steps' = steps + 1
  /\ oplog' = IF op \in Tracked
                THEN LastN(Append(oplog, [op |-> op, pre |-> strokes]), TraceLen)
                ELSE << [op |-> op, pre |-> << >>] >>
  /\ copied' = IF op = "copy_strokes" THEN [ valid |-> TRUE, buf |-> strokes ]
               ELSE IF op = "clipboard_set" THEN NoCopy
               ELSE copied
  /\ UNCHANGED << call, result >>

\* The drag bookkeeping: drag describes the current pointer drag, or the
\* last one until another handler than undo runs, as long as no handler
\* other than the pointer's ran during the drag.
NoDrag ==
  [ tool |-> "none", pre |-> << >>, apps |-> 0, snaps |-> 0,
    removing |-> TRUE, nonempty |-> TRUE, done |-> FALSE ]

\* drag after a handler that is not a pointer handler
OtherDrag(op) ==
  IF op = "undo" /\ drag.done /\ oplog # << >>
       /\ oplog[Len(oplog)].op = "end_stroke"
    THEN drag ELSE NoDrag

\* undo restoring the entry it pops instead of the new top of the history.
undo_restores_popped ==
  /\ IF Len(history) <= 1
       THEN UNCHANGED << history, redo_stack, strokes, erase_state_saved >>
       ELSE /\ redo_stack' = Append(redo_stack, history[Len(history)])
            /\ history' = SubSeq(history, 1, Len(history) - 1)
            /\ strokes' = history[Len(history)]
            /\ erase_state_saved' = redraw_canvas(erase_state_saved)
  /\ drag' = OtherDrag("undo")
  /\ UNCHANGED playback
  /\ Log("undo")
  /\ UNCHANGED << keyframes, current_keyframe, current_stroke, is_drawing,
                  current_tool, last_xy, last_event, sys_clipboard >>

undo ==
  /\ IF Len(history) <= 1
       THEN UNCHANGED << history, redo_stack, strokes, erase_state_saved >>
       ELSE /\ redo_stack' = Append(redo_stack, history[Len(history)])
            /\ history' = SubSeq(history, 1, Len(history) - 1)
            /\ strokes' = history[Len(history) - 1]
            /\ erase_state_saved' = redraw_canvas(erase_state_saved)
  /\ drag' = OtherDrag("undo")
  /\ UNCHANGED playback
  /\ Log("undo")
  /\ UNCHANGED << keyframes, current_keyframe, current_stroke, is_drawing,
                  current_tool, last_xy, last_event, sys_clipboard >>

\* redo restoring the top of the undo stack instead of the popped entry.
redo_restores_undo_top ==
  /\ IF redo_stack = << >>
       THEN UNCHANGED << history, redo_stack, strokes, erase_state_saved >>
       ELSE /\ redo_stack' = SubSeq(redo_stack, 1, Len(redo_stack) - 1)
            /\ history' = Append(history, strokes)
            /\ strokes' = history[Len(history)]
            /\ erase_state_saved' = redraw_canvas(erase_state_saved)
  /\ drag' = OtherDrag("redo")
  /\ UNCHANGED playback
  /\ Log("redo")
  /\ UNCHANGED << keyframes, current_keyframe, current_stroke, is_drawing,
                  current_tool, last_xy, last_event, sys_clipboard >>

redo ==
  /\ IF redo_stack = << >>
       THEN UNCHANGED << history, redo_stack, strokes, erase_state_saved >>
       ELSE /\ redo_stack' = SubSeq(redo_stack, 1, Len(redo_stack) - 1)
            /\ history' = Append(history, strokes)
            /\ strokes' = redo_stack[Len(redo_stack)]
            /\ erase_state_saved' = redraw_canvas(erase_state_saved)
  /\ drag' = OtherDrag("redo")
  /\ UNCHANGED playback
  /\ Log("redo")
  /\ UNCHANGED << keyframes, current_keyframe, current_stroke, is_drawing,
                  current_tool, last_xy, last_event, sys_clipboard >>

set_tool(tool_name) ==
  /\ current_tool' = tool_name
  /\ drag' = OtherDrag("set_tool")
  /\ UNCHANGED playback
  /\ Log("set_tool")
  /\ UNCHANGED << keyframes, current_keyframe, strokes, current_stroke,
                  is_drawing, history, redo_stack, erase_state_saved, last_xy,
                  last_event, sys_clipboard >>

(***************************************************************************)
(* Geometry: calculate_boundary_intersection.                              *)
(* A candidate is <<xn, yn, d>> with d > 0, the display point              *)
(* (xn / d, yn / d); the tests on it are decided exactly.                  *)
(***************************************************************************)
\* is_valid_intersection accepting every candidate.
is_valid_intersection_any(c, x1, y1, x2, y2) == TRUE

\* is_valid_intersection: on_segment; on_boundary holds for every candidate
\* because one of its coordinates is the edge coordinate itself.
is_valid_intersection(c, x1, y1, x2, y2) ==
  /\ QLeq(c[1], c[3], Max2(x1, x2)) /\ QGeq(c[1], c[3], Min2(x1, x2))
  /\ QLeq(c[2], c[3], Max2(y1, y2)) /\ QGeq(c[2], c[3], Min2(y1, y2))

\* The candidate on the vertical edge x = ex (b # 0): y = (-c - a*ex) / b.
VerticalEdge(ex, a, b, c) ==
  IF b > 0 THEN << ex * b, -c - a * ex, b >>
           ELSE << ex * (-b), -(-c - a * ex), -b >>

\* The candidate on the horizontal edge y = ey (a # 0): x = (-c - b*ey) / a.
HorizontalEdge(ey, a, b, c) ==
  IF a > 0 THEN << -c - b * ey, ey * a, a >>
           ELSE << -(-c - b * ey), ey * (-a), -a >>

\* The sort key dx*(p.x - x1) + dy*(p.y - y1), as numerator over c[3].
DotKey(c, x1, y1, x2, y2) ==
  (x2 - x1) * (c[1] - x1 * c[3]) + (y2 - y1) * (c[2] - y1 * c[3])

RECURSIVE FracLess(_, _, _, _)
\* n1 / d1 < n2 / d2 for d1, d2 > 0, decided exactly on the integer parts
\* and then on the remainders, without forming the cross products.
FracLess(n1, d1, n2, d2) ==
  IF n1 \div d1 # n2 \div d2 THEN n1 \div d1 < n2 \div d2
  ELSE IF n2 % d2 = 0 THEN FALSE
  ELSE IF n1 % d1 = 0 THEN TRUE
  ELSE FracLess(d2, n2 % d2, d1, n1 % d1)

\* key(c1) < key(c2)
KeyLess(c1, c2, x1, y1, x2, y2) ==
  FracLess(DotKey(c1, x1, y1, x2, y2), c1[3], DotKey(c2, x1, y1, x2, y2), c2[3])

\* The result list, as candidates: zero or one element.
calculate_boundary_intersection(x1, y1, x2, y2) ==
  LET left == 0
      top == 0
      right == display_width
      bottom == display_height
      a == y2 - y1
      b == x1 - x2
      c == x2 * y1 - x1 * y2
      cl == VerticalEdge(left, a, b, c)
      cr == VerticalEdge(right, a, b, c)
      ct == HorizontalEdge(top, a, b, c)
      cb == HorizontalEdge(bottom, a, b, c)
      okV(cand) == /\ b # 0
                   /\ QGeq(cand[2], cand[3], top) /\ QLeq(cand[2], cand[3], bottom)
                   /\ is_valid_intersection(cand, x1, y1, x2, y2)
      okH(cand) == /\ a # 0
                   /\ QGeq(cand[1], cand[3], left) /\ QLeq(cand[1], cand[3], right)
                   /\ is_valid_intersection(cand, x1, y1, x2, y2)
      intersections ==
           (IF okV(cl) THEN << cl >> ELSE << >>)
        \o (IF okV(cr) THEN << cr >> ELSE << >>)
        \o (IF okH(ct) THEN << ct >> ELSE << >>)
        \o (IF okH(cb) THEN << cb >> ELSE << >>)
      n == Len(intersections)
      \* stable sort by key: first = least key, earliest among ties;
      \* last = greatest key, latest among ties
      first == CHOOSE i \in 1..n :
                 \A j \in 1..n : j # i =>
                   \/ KeyLess(intersections[i], intersections[j], x1, y1, x2, y2)
                   \/ (~KeyLess(intersections[j], intersections[i], x1, y1, x2, y2)
                       /\ i < j)
      last == CHOOSE i \in 1..n :
                 \A j \in 1..n : j # i =>
                   \/ KeyLess(intersections[j], intersections[i], x1, y1, x2, y2)
                   \/ (~KeyLess(intersections[i], intersections[j], x1, y1, x2, y2)
                       /\ j < i)
      leaving == ~(0 <= x2 /\ x2 < right /\ 0 <= y2 /\ y2 < bottom)
  IN  IF a = 0 /\ b = 0 THEN << >>
      ELSE IF n > 1
             THEN IF leaving THEN << intersections[first] >>
                             ELSE << intersections[last] >>
             ELSE intersections

\* edge / (scale_factor * zoom_factor) for a candidate: the canvas point.
EdgeCanvas(c) == << Div(2 * c[1], c[3]), Div(2 * c[2], c[3]) >>

(***************************************************************************)
(* Eraser Engine: erase_at_point.                                          *)
(***************************************************************************)
\* dist <= eraser_radius, eraser_radius = eraser_size / 2
InEraser(point, cx, cy) ==
  4 * ((point[1] - cx) * (point[1] - cx) + (point[2] - cy) * (point[2] - cy))
    <= eraser_size * eraser_size

RECURSIVE PointsToRemove(_, _, _, _)
\* points_to_remove: the marked indices of the stroke, ascending, from i on.
PointsToRemove(stroke, cx, cy, i) ==
  IF i > Len(stroke) THEN << >>
  ELSE (IF InEraser(stroke[i], cx, cy) THEN << i >> ELSE << >>)
       \o PointsToRemove(stroke, cx, cy, i + 1)

RECURSIVE Ranges(_, _, _, _)
\* the loop that merges consecutive marked indices into (start, end) ranges
Ranges(ptr, i, start, end) ==
  IF i > Len(ptr) THEN << << start, end >> >>
  ELSE IF ptr[i] = end + 1 THEN Ranges(ptr, i + 1, start, ptr[i])
  ELSE << << start, end >> >> \o Ranges(ptr, i + 1, ptr[i], ptr[i])

RECURSIVE Segments_keeps_single(_, _, _, _)
\* Segments keeping the segments of a single point as well.
Segments_keeps_single(stroke, ranges, k, last_end) ==
  IF k > Len(ranges)
    THEN IF last_end < Len(stroke)
           THEN << SubSeq(stroke, last_end + 1, Len(stroke)) >>
           ELSE << >>
    ELSE (IF ranges[k][1] > last_end + 1
            THEN << SubSeq(stroke, last_end + 1, ranges[k][1] - 1) >>
            ELSE << >>)
         \o Segments_keeps_single(stroke, ranges, k + 1, ranges[k][2])

RECURSIVE Segments(_, _, _, _)
\* the loop over the ranges, then the final segment; last_end is the
\* (1-based) index of the last removed point so far, 0 at the start
Segments(stroke, ranges, k, last_end) ==
  IF k > Len(ranges)
    THEN IF last_end < Len(stroke) /\ Len(stroke) - last_end > 1
           THEN << SubSeq(stroke, last_end + 1, Len(stroke)) >>
           ELSE << >>
    ELSE (IF ranges[k][1] > last_end + 1 /\ ranges[k][1] - 1 - last_end > 1
            THEN << SubSeq(stroke, last_end + 1, ranges[k][1] - 1) >>
            ELSE << >>)
         \o Segments(stroke, ranges, k + 1, ranges[k][2])

\* What one stroke contributes to new_strokes.
EraseStroke(stroke, cx, cy) ==
  LET ptr == PointsToRemove(stroke, cx, cy, 1)
  IN  IF ptr # << >>
        THEN Segments(stroke, Ranges(ptr, 2, ptr[1], ptr[1]), 1, 0)
        ELSE << stroke >>

\* "modified = True" sits in the loop over the points of a stroke, outside
\* the distance test: it is set as soon as any stroke has a point.
Modified(buf) == \E i \in 1..Len(buf) : Len(buf[i]) > 0

\* erase_at_point deleting the current Frame's entry when the last stroke
\* goes.
erase_at_point_drops_empty_frame(buf, kfs, cur, h, r, flag, cx, cy) ==
  LET need_save == flag \in { "absent", "False" }
      new_strokes == SeqConcat([i \in 1..Len(buf) |-> EraseStroke(buf[i], cx, cy)])
      modified == Modified(buf)
  IN  [ history    |-> IF need_save THEN save_state(h, buf) ELSE h,
        redo_stack |-> IF need_save THEN << >> ELSE r,
        strokes    |-> IF modified THEN new_strokes ELSE buf,
        keyframes  |-> IF modified
                         THEN IF new_strokes = << >>
                                THEN [k \in DOMAIN kfs \ {cur} |-> kfs[k]]
                                ELSE [k \in DOMAIN kfs \cup {cur} |->
                                        IF k = cur THEN new_strokes ELSE kfs[k]]
                         ELSE kfs,
        flag       |-> IF modified THEN redraw_canvas("True") ELSE "True",
        saved      |-> need_save,
        removed    |-> \E i \in 1..Len(buf) :
                          PointsToRemove(buf[i], cx, cy, 1) # << >> ]

\* erase_at_point on the document (buf, kfs, h, r, flag) with frame cur.
erase_at_point(buf, kfs, cur, h, r, flag, cx, cy) ==
  LET need_save == flag \in { "absent", "False" }
      new_strokes == SeqConcat([i \in 1..Len(buf) |-> EraseStroke(buf[i], cx, cy)])
      modified == Modified(buf)
  IN  [ history    |-> IF need_save THEN save_state(h, buf) ELSE h,
        redo_stack |-> IF need_save THEN << >> ELSE r,
        strokes    |-> IF modified THEN new_strokes ELSE buf,
        keyframes  |-> IF modified
                         THEN [k \in DOMAIN kfs \cup {cur} |->
                                 IF k = cur THEN new_strokes ELSE kfs[k]]
                         ELSE kfs,
        flag       |-> IF modified THEN redraw_canvas("True") ELSE "True",
        saved      |-> need_save,
        removed    |-> \E i \in 1..Len(buf) :
                          PointsToRemove(buf[i], cx, cy, 1) # << >> ]

\* The drag bookkeeping after one eraser application.
DragErase(d, er) ==
  IF d.tool # "eraser" THEN d ELSE
  [ d EXCEPT !.apps = @ + 1,
             !.snaps = @ + (IF er.saved THEN 1 ELSE 0),
             !.removing = @ /\ er.removed,
             !.nonempty = @ /\ strokes # << >> ]

(***************************************************************************)
(* Stroke Capture: start_stroke, continue_stroke, end_stroke.              *)
(* The pointer protocol of the toolkit delivers a press only while the     *)
(* button is up and motion / release only while it is down.                *)
(***************************************************************************)
NewDrag ==
  [ tool |-> current_tool, pre |-> strokes, apps |-> 0, snaps |-> 0,
    removing |-> TRUE, nonempty |-> TRUE, done |-> FALSE ]

start_stroke(rel) ==
  LET canvas_x == ToCanvas(rel[1])
      canvas_y == ToCanvas(rel[2])
      er == erase_at_point(strokes, keyframes, current_keyframe, history,
                           redo_stack, erase_state_saved, canvas_x, canvas_y)
  IN
  /\ ~is_drawing
  /\ last_event' = rel
  /\ is_drawing' = TRUE
  /\ IF current_tool = "pencil"
       THEN /\ current_stroke' = IF InCanvas(rel) THEN << << canvas_x, canvas_y >> >>
                                                  ELSE << >>
            /\ last_xy' = << canvas_x, canvas_y >>
            /\ drag' = NewDrag
            /\ UNCHANGED << strokes, keyframes, history, redo_stack,
                            erase_state_saved >>
       ELSE IF current_tool = "eraser" /\ InCanvas(rel)
         THEN /\ strokes' = er.strokes
              /\ keyframes' = er.keyframes
              /\ history' = er.history
              /\ redo_stack' = er.redo_stack
              /\ erase_state_saved' = er.flag
              /\ drag' = DragErase(NewDrag, er)
              /\ UNCHANGED << current_stroke, last_xy >>
         ELSE /\ drag' = NewDrag
              /\ UNCHANGED << strokes, keyframes, history, redo_stack,
                              erase_state_saved, current_stroke, last_xy >>
  /\ UNCHANGED playback
  /\ Log(IF current_tool = "eraser" /\ InCanvas(rel) THEN "erase" ELSE "start_stroke")
  /\ UNCHANGED << current_keyframe, current_tool, sys_clipboard >>

\* int(spacing / max_spacing) from sq4 = 4 * spacing^2
NumPoints(sq4) ==
  CHOOSE n \in 0..400 :
    /\ (2 * n * max_spacing) * (2 * n * max_spacing) <= sq4
    /\ sq4 < (2 * (n + 1) * max_spacing) * (2 * (n + 1) * max_spacing)

\* The pencil branch appending the current sample only.
PencilPoints_no_edge(prev_event, rel, last) ==
  << << ToCanvas(rel[1]), ToCanvas(rel[2]) >> >>

\* The points the pencil branch of continue_stroke appends to the accumulator
\* (last_xy is present), the current sample last.
PencilPoints(prev_event, rel, last) ==
  LET canvas_x == ToCanvas(rel[1])
      canvas_y == ToCanvas(rel[2])
      prev_in_canvas == InCanvas(prev_event)
      current_in_canvas == InCanvas(rel)
      \* dist > 1.0
      far == (prev_event[1] - rel[1]) * (prev_event[1] - rel[1])
             + (prev_event[2] - rel[2]) * (prev_event[2] - rel[2]) > 1
      edge_points == calculate_boundary_intersection(prev_event[1], prev_event[2],
                                                     rel[1], rel[2])
      \* 4 * spacing^2, spacing measured in display coordinates
      sq4 == (last[1] - 2 * rel[1]) * (last[1] - 2 * rel[1])
             + (last[2] - 2 * rel[2]) * (last[2] - 2 * rel[2])
      num_points == NumPoints(sq4)
      interp == [i \in 1..(num_points - 1) |->
                   << last[1] + Div((canvas_x - last[1]) * i, num_points),
                      last[2] + Div((canvas_y - last[2]) * i, num_points) >>]
  IN  (IF prev_in_canvas # current_in_canvas
         THEN IF far THEN [i \in 1..Len(edge_points) |-> EdgeCanvas(edge_points[i])]
                     ELSE << >>
         ELSE IF current_in_canvas
                   /\ sq4 > 4 * max_spacing * max_spacing
                THEN interp
                ELSE << >>)
      \o << << canvas_x, canvas_y >> >>

continue_stroke(rel) ==
  LET canvas_x == ToCanvas(rel[1])
      canvas_y == ToCanvas(rel[2])
      prev_event == IF last_event = << >> THEN rel ELSE last_event
      er == erase_at_point(strokes, keyframes, current_keyframe, history,
                           redo_stack, erase_state_saved, canvas_x, canvas_y)
  IN
  /\ is_drawing
  /\ last_event' = rel
  /\ IF current_tool = "pencil"
       THEN /\ current_stroke' =
                 IF last_xy # << >>
                   THEN current_stroke \o PencilPoints(prev_event, rel, last_xy)
                   ELSE current_stroke
            /\ last_xy' = << canvas_x, canvas_y >>
            /\ drag' = drag
            /\ UNCHANGED << strokes, keyframes, history, redo_stack,
                            erase_state_saved >>
       ELSE IF current_tool = "eraser" /\ InCanvas(rel)
         THEN /\ strokes' = er.strokes
              /\ keyframes' = er.keyframes
              /\ history' = er.history
              /\ redo_stack' = er.redo_stack
              /\ erase_state_saved' = er.flag
              /\ drag' = DragErase(drag, er)
              /\ UNCHANGED << current_stroke, last_xy >>
         ELSE /\ drag' = drag
              /\ UNCHANGED << strokes, keyframes, history, redo_stack,
                              erase_state_saved, current_stroke, last_xy >>
  /\ UNCHANGED playback
  /\ Log(IF current_tool = "eraser" /\ InCanvas(rel) THEN "erase" ELSE "continue_stroke")
  /\ UNCHANGED << current_keyframe, is_drawing, current_tool, sys_clipboard >>

\* The frame map with frame k set to buf.
SetFrame(kfs, k, buf) ==
  [j \in DOMAIN kfs \cup {k} |-> IF j = k THEN buf ELSE kfs[j]]

\* end_stroke committing an accumulator of a single point as well.
end_stroke_commits_single ==
  LET commit == current_tool = "pencil" /\ Len(current_stroke) > 0
      new_strokes == Append(strokes, current_stroke)
  IN
  /\ is_drawing
  /\ is_drawing' = FALSE
  /\ IF commit
       THEN /\ strokes' = new_strokes
            /\ keyframes' = SetFrame(keyframes, current_keyframe, new_strokes)
            /\ history' = save_state(history, new_strokes)
            /\ redo_stack' = << >>
       ELSE UNCHANGED << strokes, keyframes, history, redo_stack >>
  /\ erase_state_saved' =
       IF current_tool = "pencil" THEN "False"
       ELSE IF current_tool = "eraser" /\ erase_state_saved = "True" THEN "False"
       ELSE erase_state_saved
  /\ current_stroke' = << >>
  /\ last_xy' = << >>
  /\ last_event' = << >>
  /\ drag' = IF drag.tool = "none" THEN NoDrag ELSE [drag EXCEPT !.done = TRUE]
  /\ UNCHANGED playback
  /\ Log(IF commit THEN "commit" ELSE "end_stroke")
  /\ UNCHANGED << current_keyframe, current_tool, sys_clipboard >>

end_stroke ==
  LET commit == current_tool = "pencil" /\ Len(current_stroke) > 1
      new_strokes == Append(strokes, current_stroke)
  IN
  /\ is_drawing
  /\ is_drawing' = FALSE
  /\ IF commit
       THEN /\ strokes' = new_strokes
            /\ keyframes' = SetFrame(keyframes, current_keyframe, new_strokes)
            /\ history' = save_state(history, new_strokes)
            /\ redo_stack' = << >>
       ELSE UNCHANGED << strokes, keyframes, history, redo_stack >>
  /\ erase_state_saved' =
       IF current_tool = "pencil" THEN "False"
       ELSE IF current_tool = "eraser" /\ erase_state_saved = "True" THEN "False"
       ELSE erase_state_saved
  /\ current_stroke' = << >>
  /\ last_xy' = << >>
  /\ last_event' = << >>
  /\ drag' = IF drag.tool = "none" THEN NoDrag ELSE [drag EXCEPT !.done = TRUE]
  /\ UNCHANGED playback
  /\ Log(IF commit THEN "commit" ELSE "end_stroke")
  /\ UNCHANGED << current_keyframe, current_tool, sys_clipboard >>

\* continue_stroke without the test of self.is_drawing: the sample is
\* appended to the accumulator.
continue_stroke_idle_appends(rel) ==
  /\ ~is_drawing
  /\ current_stroke' = Append(current_stroke, << ToCanvas(rel[1]), ToCanvas(rel[2]) >>)
  /\ drag' = drag
  /\ UNCHANGED playback
  /\ Log("continue_stroke_idle")
  /\ UNCHANGED << keyframes, current_keyframe, strokes, is_drawing,
                  current_tool, history, redo_stack, erase_state_saved, last_xy,
                  last_event, sys_clipboard >>

\* continue_stroke delivered while self.is_drawing is False (the press went
\* to no handler): "if not self.is_drawing: return".
continue_stroke_idle(rel) ==
  /\ ~is_drawing
  /\ drag' = drag
  /\ UNCHANGED playback
  /\ Log("continue_stroke_idle")
  /\ UNCHANGED << keyframes, current_keyframe, strokes, current_stroke,
                  is_drawing, current_tool, history, redo_stack,
                  erase_state_saved, last_xy, last_event, sys_clipboard >>

\* end_stroke delivered while self.is_drawing is False: the body of
\* "if self.is_drawing:" is skipped.
end_stroke_idle ==
  /\ ~is_drawing
  /\ drag' = drag
  /\ UNCHANGED playback
  /\ Log("end_stroke_idle")
  /\ UNCHANGED << keyframes, current_keyframe, strokes, current_stroke,
                  is_drawing, current_tool, history, redo_stack,
                  erase_state_saved, last_xy, last_event, sys_clipboard >>

(***************************************************************************)
(* Keyframes: set_keyframe, load_keyframe, next_keyframe, prev_keyframe,   *)
(* clear_canvas.                                                           *)
(***************************************************************************)
\* int(text) for the texts of EntryTexts; a text outside the domain raises
\* ValueError.
IntOf == [ t \in { "0", "1", "2", "3" } |-> CASE t = "0" -> 0 [] t = "1" -> 1 [] t = "2" -> 2 [] t = "3" -> 3 ]

IsInt(t) == t \in DOMAIN IntOf

\* load_keyframe that pushes the loaded buffer instead of resetting the
\* undo / redo stacks.
load_keyframe_keeps_history(kfs, cur, buf, flag, frame_num) ==
  LET kfs1 == IF cur # frame_num /\ buf # << >> THEN SetFrame(kfs, cur, buf) ELSE kfs
      loaded == IF frame_num \in DOMAIN kfs1 THEN kfs1[frame_num] ELSE << >>
  IN  [ keyframes |-> kfs1,
        strokes |-> loaded,
        flag |-> redraw_canvas(flag),
        current_keyframe |-> frame_num,
        history |-> Append(history, loaded),
        redo_stack |-> redo_stack ]

\* load_keyframe(frame_num) called with self.current_keyframe = cur.
load_keyframe(kfs, cur, buf, flag, frame_num) ==
  LET kfs1 == IF cur # frame_num /\ buf # << >> THEN SetFrame(kfs, cur, buf) ELSE kfs
      loaded == IF frame_num \in DOMAIN kfs1 THEN kfs1[frame_num] ELSE << >>
  IN  [ keyframes |-> kfs1,
        strokes |-> loaded,
        flag |-> redraw_canvas(flag),
        current_keyframe |-> frame_num,
        history |-> << loaded >>,
        redo_stack |-> << >> ]

set_keyframe(text) ==
  LET frame_num == IntOf[text]
      prev_frame == current_keyframe
      \* "Save previous frame explicitly"
      kfs1 == IF prev_frame # frame_num
                THEN SetFrame(keyframes, prev_frame, strokes) ELSE keyframes
      \* save_keyframe_with_background, self.current_keyframe already frame_num
      kfs2 == SetFrame(kfs1, frame_num, strokes)
      ld == load_keyframe(kfs2, frame_num, strokes, erase_state_saved, frame_num)
  IN
  /\ IF ~IsInt(text)
       THEN UNCHANGED << keyframes, current_keyframe, strokes, history,
                         redo_stack, erase_state_saved >>
       ELSE IF prev_frame # frame_num
         THEN /\ keyframes' = ld.keyframes
              /\ current_keyframe' = ld.current_keyframe
              /\ strokes' = ld.strokes
              /\ history' = ld.history
              /\ redo_stack' = ld.redo_stack
              /\ erase_state_saved' = ld.flag
         ELSE /\ keyframes' = kfs2
              /\ current_keyframe' = frame_num
              /\ UNCHANGED << strokes, history, redo_stack, erase_state_saved >>
  /\ drag' = OtherDrag("set_keyframe")
  /\ UNCHANGED playback
  /\ Log("set_keyframe")
  /\ UNCHANGED << current_stroke, is_drawing, current_tool, last_xy,
                  last_event, sys_clipboard >>

\* next_keyframe / prev_keyframe both step self.current_keyframe first and
\* then call load_keyframe(self.current_keyframe).
StepKeyframe(target) ==
  LET ld == load_keyframe(keyframes, target, strokes, erase_state_saved, target)
  IN  /\ keyframes' = ld.keyframes
      /\ current_keyframe' = ld.current_keyframe
      /\ strokes' = ld.strokes
      /\ history' = ld.history
      /\ redo_stack' = ld.redo_stack
      /\ erase_state_saved' = ld.flag

next_keyframe ==
  /\ StepKeyframe(current_keyframe + 1)
  /\ drag' = OtherDrag("next_keyframe")
  /\ UNCHANGED playback
  /\ Log("next_keyframe")
  /\ UNCHANGED << current_stroke, is_drawing, current_tool, last_xy,
                  last_event, sys_clipboard >>

\* prev_keyframe without the test current_keyframe > 1.
prev_keyframe_no_floor ==
  /\ StepKeyframe(current_keyframe - 1)
  /\ drag' = OtherDrag("prev_keyframe")
  /\ UNCHANGED playback
  /\ Log("prev_keyframe")
  /\ UNCHANGED << current_stroke, is_drawing, current_tool, last_xy,
                  last_event, sys_clipboard >>

prev_keyframe ==
  /\ IF current_keyframe > 1
       THEN StepKeyframe(current_keyframe - 1)
       ELSE UNCHANGED << keyframes, current_keyframe, strokes, history,
                         redo_stack, erase_state_saved >>
  /\ drag' = OtherDrag("prev_keyframe")
  /\ UNCHANGED playback
  /\ Log("prev_keyframe")
  /\ UNCHANGED << current_stroke, is_drawing, current_tool, last_xy,
                  last_event, sys_clipboard >>

\* clear_canvas mapping the current keyframe to an empty Frame instead of
\* deleting its entry.
clear_canvas_keeps_entry ==
  /\ strokes' = << >>
  /\ keyframes' = IF current_keyframe \in DOMAIN keyframes
                    THEN [keyframes EXCEPT ![current_keyframe] = << >>]
                    ELSE keyframes
  /\ erase_state_saved' = redraw_canvas(erase_state_saved)
  /\ drag' = OtherDrag("clear_canvas")
  /\ UNCHANGED playback
  /\ Log("clear_canvas")
  /\ UNCHANGED << current_keyframe, current_stroke, is_drawing, current_tool,
                  history, redo_stack, last_xy, last_event, sys_clipboard >>

\* clear_canvas that removes every keyframe from the map.
clear_canvas_drops_all ==
  /\ strokes' = << >>
  /\ keyframes' = << >>
  /\ erase_state_saved' = redraw_canvas(erase_state_saved)
  /\ drag' = OtherDrag("clear_canvas")
  /\ UNCHANGED playback
  /\ Log("clear_canvas")
  /\ UNCHANGED << current_keyframe, current_stroke, is_drawing, current_tool,
                  history, redo_stack, last_xy, last_event, sys_clipboard >>

\* clear_canvas as the Clear button calls it (save_history = False).
clear_canvas ==
  /\ strokes' = << >>
  /\ keyframes' = [k \in DOMAIN keyframes \ {current_keyframe} |-> keyframes[k]]
  /\ erase_state_saved' = redraw_canvas(erase_state_saved)
  /\ drag' = OtherDrag("clear_canvas")
  /\ UNCHANGED playback
  /\ Log("clear_canvas")
  /\ UNCHANGED << current_keyframe, current_stroke, is_drawing, current_tool,
                  history, redo_stack, last_xy, last_event, sys_clipboard >>

(***************************************************************************)
(* Clipboard: copy_strokes, paste_strokes.  The Tk clipboard holds text;   *)
(* it is modelled by the JSON value the text decodes to:                   *)
(*   [kind |-> "empty"]   nothing on the clipboard (clipboard_get raises)  *)
(*   [kind |-> "text"]    text that is not a JSON list                     *)
(*   [kind |-> "list", items |-> ...]  a JSON list; an item is             *)
(*       [kind |-> "scalar"] or [kind |-> "list", pts |-> ...], a point    *)
(*       entry is [kind |-> "pair", x, y] (two numbers),                   *)
(*       [kind |-> "badcoord"] (a pair with a non-numeric coordinate) or   *)
(*       [kind |-> "short"] (not a list of at least two elements).         *)
(***************************************************************************)
NoPoint == [kind |-> "short", x |-> 0, y |-> 0]

Pair(x, y) == [kind |-> "pair", x |-> x, y |-> y]

BadCoord == [kind |-> "badcoord", x |-> 0, y |-> 0]

ListItem(pts) == [kind |-> "list", pts |-> pts]

ScalarItem == [kind |-> "scalar", pts |-> << >>]

EmptyClipboard == [kind |-> "empty", items |-> << >>]

\* json.dumps shifting every coordinate by a paste offset of 10.
JsonDumps_offset(buf) ==
  [ kind |-> "list",
    items |-> [i \in 1..Len(buf) |->
                 ListItem([j \in 1..Len(buf[i]) |->
                             Pair(buf[i][j][1] + 10, buf[i][j][2] + 10)])] ]

\* json.dumps(self.strokes)
JsonDumps(buf) ==
  [ kind |-> "list",
    items |-> [i \in 1..Len(buf) |->
                 ListItem([j \in 1..Len(buf[i]) |-> Pair(buf[i][j][1], buf[i][j][2])])] ]

\* The payload of the paste scenario: [[[0,0],[5,5]],[[1,"x"]]]
ScenarioPayload ==
  [ kind |-> "list",
    items |-> << ListItem(<< Pair(0, 0), Pair(5, 5) >>), ListItem(<< BadCoord >>) >> ]

\* A payload with every kind of malformed entry:
\* [[[6,6],[1,"x"],[7,7]], 7, [[3,3],[4]], [[8,8],[9,9],[4]]]
MalformedPayload ==
  [ kind |-> "list",
    items |-> << ListItem(<< Pair(6, 6), BadCoord, Pair(7, 7) >>),
                 ScalarItem,
                 ListItem(<< Pair(3, 3), NoPoint >>),
                 ListItem(<< Pair(8, 8), Pair(9, 9), NoPoint >>) >> ]

\* A payload without any valid stroke: [[[1,"x"],[2,2]], 7]
JunkPayload ==
  [ kind |-> "list",
    items |-> << ListItem(<< BadCoord, Pair(2, 2) >>), ScalarItem >> ]

ExternalPayloads == { ScenarioPayload, MalformedPayload, JunkPayload }

RECURSIVE ValidPoints(_)
\* new_stroke: the entries that are pairs of numbers, in order
ValidPoints(pts) ==
  IF pts = << >> THEN << >>
  ELSE (IF Head(pts).kind = "pair" THEN << << Head(pts).x, Head(pts).y >> >> ELSE << >>)
       \o ValidPoints(Tail(pts))

\* processed_strokes without the "len(new_stroke) > 1" test.
ProcessedStrokes_keeps_short(items) ==
  LET lists == SelectSeq(items, LAMBDA it : it.kind = "list")
  IN  [i \in 1..Len(lists) |-> ValidPoints(lists[i].pts)]

RECURSIVE ProcessedStrokes(_)
\* processed_strokes
ProcessedStrokes(items) ==
  IF items = << >> THEN << >>
  ELSE (IF Head(items).kind = "list" /\ Len(ValidPoints(Head(items).pts)) > 1
          THEN << ValidPoints(Head(items).pts) >> ELSE << >>)
       \o ProcessedStrokes(Tail(items))

copy_strokes ==
  /\ sys_clipboard' = IF strokes = << >> THEN sys_clipboard ELSE JsonDumps(strokes)
  /\ drag' = OtherDrag("copy_strokes")
  /\ UNCHANGED playback
  /\ Log("copy_strokes")
  /\ UNCHANGED << keyframes, current_keyframe, strokes, current_stroke,
                  is_drawing, current_tool, history, redo_stack,
                  erase_state_saved, last_xy, last_event >>

\* paste_strokes putting the pasted strokes in front of the buffer.
paste_strokes_prepends ==
  LET processed_strokes == IF sys_clipboard.kind = "list"
                             THEN ProcessedStrokes(sys_clipboard.items) ELSE << >>
      new_strokes == processed_strokes \o strokes
  IN
  /\ IF processed_strokes # << >>
       THEN /\ strokes' = new_strokes
            /\ history' = save_state(history, new_strokes)
            /\ redo_stack' = << >>
            /\ erase_state_saved' = redraw_canvas(erase_state_saved)
       ELSE UNCHANGED << strokes, history, redo_stack, erase_state_saved >>
  /\ drag' = OtherDrag("paste_strokes")
  /\ UNCHANGED playback
  /\ Log("paste_strokes")
  /\ UNCHANGED << keyframes, current_keyframe, current_stroke, is_drawing,
                  current_tool, last_xy, last_event, sys_clipboard >>

paste_strokes ==
  LET processed_strokes == IF sys_clipboard.kind = "list"
                             THEN ProcessedStrokes(sys_clipboard.items) ELSE << >>
      new_strokes == strokes \o processed_strokes
  IN
  /\ IF processed_strokes # << >>
       THEN /\ strokes' = new_strokes
            /\ history' = save_state(history, new_strokes)
            /\ redo_stack' = << >>
            /\ erase_state_saved' = redraw_canvas(erase_state_saved)
       ELSE UNCHANGED << strokes, history, redo_stack, erase_state_saved >>
  /\ drag' = OtherDrag("paste_strokes")
  /\ UNCHANGED playback
  /\ Log("paste_strokes")
  /\ UNCHANGED << keyframes, current_keyframe, current_stroke, is_drawing,
                  current_tool, last_xy, last_event, sys_clipboard >>

\* Another application puts text on the system clipboard.
clipboard_set(payload) ==
  /\ sys_clipboard # payload
  /\ sys_clipboard' = payload
  /\ drag' = OtherDrag("clipboard_set")
  /\ UNCHANGED playback
  /\ Log("clipboard_set")
  /\ UNCHANGED << keyframes, current_keyframe, strokes, current_stroke,
                  is_drawing, current_tool, history, redo_stack,
                  erase_state_saved, last_xy, last_event >>

(***************************************************************************)
(* Flow Interpolation Engine.  The rasters and the flow field are values   *)
(* of the external flow backend; what the engine returns depends on them   *)
(* only through (1) whether the run fails and (2) where the foreground     *)
(* pixels near each blended point lie.  Both are inputs of the model:      *)
(* ok says whether the run succeeded, snap is the displacement             *)
(* 0.7 * (centroid - linear estimate) the snapping step adds to a point    *)
(* (<<0, 0>> when no foreground pixel is found or the centroid coincides). *)
(***************************************************************************)
SnapShifts == { << 0, 0 >>, << 2, -1 >> }

RECURSIVE SqrtBetween(_, _, _)
\* the integer k in lo..hi with k*k <= n < (k+1)*(k+1)
SqrtBetween(n, lo, hi) ==
  IF lo >= hi THEN lo
  ELSE LET mid == (lo + hi + 1) \div 2
       IN  IF mid * mid <= n THEN SqrtBetween(n, mid, hi)
                             ELSE SqrtBetween(n, lo, mid - 1)

\* segment_length = (dx**2 + dy**2)**0.5 on the integer grid
SegmentLength(p, q) ==
  LET n == (q[1] - p[1]) * (q[1] - p[1]) + (q[2] - p[2]) * (q[2] - p[2])
  IN  SqrtBetween(n, 0, n)

RECURSIVE CumLength(_, _)
\* lengths[i] before normalisation (1-based): the arc length up to point i
CumLength(stroke, i) ==
  IF i <= 1 THEN 0
  ELSE CumLength(stroke, i - 1) + SegmentLength(stroke[i - 1], stroke[i])

\* _find_point_at_param(stroke, t) with t = tn / td, td > 0
find_point_at_param(stroke, tn, td) ==
  LET n == Len(stroke)
      total_length == CumLength(stroke, n)
      \* lengths[i-1] <= t < lengths[i], lengths normalised by total_length
      inseg(i) == /\ CumLength(stroke, i - 1) * td <= tn * total_length
                  /\ tn * total_length < CumLength(stroke, i) * td
      hits == { i \in 2..n : total_length > 0 /\ inseg(i) }
      i0 == CHOOSE i \in hits : \A j \in hits : i <= j
      num == tn * total_length - CumLength(stroke, i0 - 1) * td
      den == (CumLength(stroke, i0) - CumLength(stroke, i0 - 1)) * td
  IN  IF tn <= 0 THEN stroke[1]
      ELSE IF tn >= td THEN stroke[n]
      ELSE IF hits = {} THEN stroke[n]
      ELSE << stroke[i0 - 1][1] + Div(num * (stroke[i0][1] - stroke[i0 - 1][1]), den),
              stroke[i0 - 1][2] + Div(num * (stroke[i0][2] - stroke[i0 - 1][2]), den) >>

\* The blend that ignores the factor: the midpoint.
Blend_midpoint(a, b, fn, fd) == Div(a + b, 2)

\* The blend with the weights of the two frames exchanged.
Blend_swapped(a, b, fn, fd) == Div(fn * a + (fd - fn) * b, fd)

\* (1 - factor) * a + factor * b with factor = fn / fd
Blend(a, b, fn, fd) == Div((fd - fn) * a + fn * b, fd)

\* ExtractStroke sampling min(len(start), len(end)) parameter values in the
\* branch of different point counts.
ExtractStroke_min_points(s_stroke, e_stroke, fn, fd, snap) ==
  LET num_points == Min2(Len(s_stroke), Len(e_stroke))
      tn(k) == k - 1
      td == IF num_points > 1 THEN num_points - 1 ELSE 1
  IN  IF Len(s_stroke) = Len(e_stroke)
        THEN [k \in 1..Len(s_stroke) |->
                << Blend(s_stroke[k][1], e_stroke[k][1], fn, fd) + snap[1],
                   Blend(s_stroke[k][2], e_stroke[k][2], fn, fd) + snap[2] >>]
        ELSE [k \in 1..num_points |->
                << Blend(find_point_at_param(s_stroke, tn(k), td)[1],
                         find_point_at_param(e_stroke, tn(k), td)[1], fn, fd),
                   Blend(find_point_at_param(s_stroke, tn(k), td)[2],
                         find_point_at_param(e_stroke, tn(k), td)[2], fn, fd) >>]

\* One stroke of _extract_strokes_from_image, from the j-th stroke pair.
ExtractStroke(s_stroke, e_stroke, fn, fd, snap) ==
  LET num_points == Max2(Len(s_stroke), Len(e_stroke))
      \* np.linspace(0, 1, num_points)[k - 1] = (k - 1) / (num_points - 1)
      tn(k) == k - 1
      td == IF num_points > 1 THEN num_points - 1 ELSE 1
  IN  IF Len(s_stroke) = Len(e_stroke)
        THEN [k \in 1..Len(s_stroke) |->
                << Blend(s_stroke[k][1], e_stroke[k][1], fn, fd) + snap[1],
                   Blend(s_stroke[k][2], e_stroke[k][2], fn, fd) + snap[2] >>]
        ELSE [k \in 1..num_points |->
                << Blend(find_point_at_param(s_stroke, tn(k), td)[1],
                         find_point_at_param(e_stroke, tn(k), td)[1], fn, fd),
                   Blend(find_point_at_param(s_stroke, tn(k), td)[2],
                         find_point_at_param(e_stroke, tn(k), td)[2], fn, fd) >>]

extract_strokes_from_image(start_strokes, end_strokes, fn, fd, snap) ==
  [j \in 1..Min2(Len(start_strokes), Len(end_strokes)) |->
     ExtractStroke(start_strokes[j], end_strokes[j], fn, fd, snap)]

\* optical_flow_interpolate: [] when the backend is missing or the run raises
optical_flow_interpolate(start_strokes, end_strokes, fn, fd, ok, snap) ==
  IF ok THEN extract_strokes_from_image(start_strokes, end_strokes, fn, fd, snap)
        ELSE << >>

\* int(v) rounding to the nearest integer instead of truncating.
IntTrunc_rounds(n, d) == (2 * n + d) \div (2 * d)

\* int(v) for v = n / d, d > 0: truncation towards zero
IntTrunc(n, d) == IF n >= 0 THEN n \div d ELSE -((-n) \div d)

RECURSIVE InterpolateLoop(_, _, _, _, _, _, _, _, _)
\* the loop "for i in range(1, num_inbetweens + 1)" from i on; run fail_at
\* (if any) is the one that fails
InterpolateLoop(kfs, i, num_inbetweens, start_frame, end_frame, start_strokes, end_strokes, fail_at, snap) ==
  IF i > num_inbetweens THEN kfs
  ELSE LET new_frame_num ==
             IntTrunc(start_frame * (num_inbetweens + 1) + i * (end_frame - start_frame),
                      num_inbetweens + 1)
           new_strokes ==
             optical_flow_interpolate(start_strokes, end_strokes, i,
                                      num_inbetweens + 1, i # fail_at, snap)
       IN  InterpolateLoop(SetFrame(kfs, new_frame_num, new_strokes), i + 1,
                           num_inbetweens, start_frame, end_frame,
                           start_strokes, end_strokes, fail_at, snap)

\* interpolate_frames taking an absent start or end frame for an empty one.
interpolate_frames_creates_missing(start_text, end_text, count_text, fail_at, snap) ==
  LET start_frame == IntOf[start_text]
      end_frame == IntOf[end_text]
      num_inbetweens == IntOf[count_text]
      valid == IsInt(start_text) /\ IsInt(end_text) /\ IsInt(count_text)
      found == start_frame \in DOMAIN keyframes /\ end_frame \in DOMAIN keyframes
  IN
  \* "Save the current state before interpolation", ahead of the try block
  /\ IF strokes # << >>
       THEN /\ history' = save_state(history, strokes)
            /\ redo_stack' = << >>
       ELSE UNCHANGED << history, redo_stack >>
  /\ keyframes' =
       IF valid
         THEN InterpolateLoop(keyframes, 1, num_inbetweens, start_frame, end_frame,
                              IF start_frame \in DOMAIN keyframes
                                THEN keyframes[start_frame] ELSE << >>,
                              IF end_frame \in DOMAIN keyframes
                                THEN keyframes[end_frame] ELSE << >>,
                              fail_at, snap)
         ELSE keyframes
  /\ drag' = OtherDrag("interpolate_frames")
  /\ UNCHANGED playback
  /\ Log(IF ~valid THEN "interpolate_invalid"
         ELSE IF ~found THEN "interpolate_notfound"
         ELSE "interpolate_frames")
  /\ UNCHANGED << current_keyframe, strokes, current_stroke, is_drawing,
                  current_tool, erase_state_saved, last_xy, last_event,
                  sys_clipboard >>

interpolate_frames(start_text, end_text, count_text, fail_at, snap) ==
  LET start_frame == IntOf[start_text]
      end_frame == IntOf[end_text]
      num_inbetweens == IntOf[count_text]
      valid == IsInt(start_text) /\ IsInt(end_text) /\ IsInt(count_text)
      found == start_frame \in DOMAIN keyframes /\ end_frame \in DOMAIN keyframes
  IN
  \* "Save the current state before interpolation", ahead of the try block
  /\ IF strokes # << >>
       THEN /\ history' = save_state(history, strokes)
            /\ redo_stack' = << >>
       ELSE UNCHANGED << history, redo_stack >>
  /\ keyframes' =
       IF valid /\ found
         THEN InterpolateLoop(keyframes, 1, num_inbetweens, start_frame, end_frame,
                              keyframes[start_frame], keyframes[end_frame],
                              fail_at, snap)
         ELSE keyframes
  /\ drag' = OtherDrag("interpolate_frames")
  /\ UNCHANGED playback
  /\ Log(IF ~valid THEN "interpolate_invalid"
         ELSE IF ~found THEN "interpolate_notfound"
         ELSE "interpolate_frames")
  /\ UNCHANGED << current_keyframe, strokes, current_stroke, is_drawing,
                  current_tool, erase_state_saved, last_xy, last_event,
                  sys_clipboard >>

(***************************************************************************)
(* Playback: play_animation, the show_frame callback it schedules with     *)
(* root.after, and stop_animation.  Rendering a frame only draws on the    *)
(* canvas widget; the document is read, never written, by a tick.          *)
(***************************************************************************)
\* Texts of the FPS entry; int(text) raises ValueError outside the domain.
FpsTexts == { "12", "x" }

FpsOf == [ t \in { "12" } |-> 12 ]

RECURSIVE SortedKeys(_)
\* sorted(self.keyframes.keys())
SortedKeys(S) ==
  IF S = {} THEN << >>
  ELSE LET m == CHOOSE k \in S : \A j \in S : k <= j
       IN  << m >> \o SortedKeys(S \ {m})

\* play_pre while no playback runs
NoPlay == [ frame |-> 0, strokes |-> << >> ]

\* The scheduled calls after stop_animation: no call is cancelled, each is
\* marked as scheduled by a stopped playback.
Stopped(calls) == [i \in 1..Len(calls) |-> [calls[i] EXCEPT !.stopped = TRUE]]

\* stop_animation that leaves the buffer of the playback time in place.
stop_animation_keeps_buffer ==
  /\ IF ~animation_running
       THEN UNCHANGED << playback, current_keyframe, strokes, erase_state_saved >>
       ELSE /\ animation_running' = FALSE
            /\ pending' = Stopped(pending)
            /\ play_pre' = NoPlay
            /\ UNCHANGED << animation_current_frame, animation_current_strokes,
                            current_keyframe, strokes, erase_state_saved >>
  /\ drag' = OtherDrag("stop_animation")
  /\ Log(IF animation_running
            /\ << current_keyframe, strokes >> # << play_pre.frame, play_pre.strokes >>
         THEN "stop_restore" ELSE "stop_animation")
  /\ UNCHANGED << keyframes, current_stroke, is_drawing, current_tool, history,
                  redo_stack, last_xy, last_event, sys_clipboard >>

stop_animation ==
  /\ IF ~animation_running
       THEN UNCHANGED << playback, current_keyframe, strokes, erase_state_saved >>
       ELSE /\ animation_running' = FALSE
            /\ pending' = Stopped(pending)
            /\ play_pre' = NoPlay
            /\ IF animation_current_frame # << >> /\ animation_current_strokes # << >>
                 THEN /\ current_keyframe' = animation_current_frame[1]
                      /\ strokes' = animation_current_strokes[1]
                      /\ animation_current_strokes' = << >>
                      /\ erase_state_saved' = redraw_canvas(erase_state_saved)
                      /\ UNCHANGED animation_current_frame
                 ELSE UNCHANGED << animation_current_frame, animation_current_strokes,
                                   current_keyframe, strokes, erase_state_saved >>
  /\ drag' = OtherDrag("stop_animation")
  /\ Log(IF animation_running
            /\ << current_keyframe, strokes >> # << play_pre.frame, play_pre.strokes >>
         THEN "stop_restore" ELSE "stop_animation")
  /\ UNCHANGED << keyframes, current_stroke, is_drawing, current_tool, history,
                  redo_stack, last_xy, last_event, sys_clipboard >>

\* play_animation with fps_text in the FPS entry.  A text that does not parse
\* is reported, replaced by "12", and play_animation runs again.
play_animation(fps_text) ==
  LET fps == IF fps_text \in DOMAIN FpsOf THEN FpsOf[fps_text] ELSE FpsOf["12"]
      delay == 1000 \div (IF fps < 1 THEN 12 ELSE fps)
      nums == SortedKeys(DOMAIN keyframes)
  IN
  /\ IF ~animation_running /\ nums # << >>
       THEN /\ animation_current_frame' = << current_keyframe >>
            /\ animation_current_strokes' = << strokes >>
            /\ animation_running' = TRUE
            \* show_frame(0) runs at once and schedules show_frame(1 % len)
            /\ pending' = Append(pending, [ frame_nums |-> nums,
                                            index |-> 1 % Len(nums),
                                            stopped |-> FALSE ])
            /\ play_pre' = [ frame |-> current_keyframe, strokes |-> strokes ]
       ELSE UNCHANGED playback
  /\ drag' = OtherDrag("play_animation")
  /\ Log("play_animation")
  /\ UNCHANGED << keyframes, current_keyframe, strokes, current_stroke,
                  is_drawing, current_tool, history, redo_stack,
                  erase_state_saved, last_xy, last_event, sys_clipboard >>

\* The oldest scheduled show_frame(index) call fires (every call is scheduled
\* with the same delay, so the calls fire in the order of their scheduling).
\* It returns at once when no playback runs; otherwise it renders its frame
\* and schedules the next call.  A frame of frame_nums that is no longer in
\* the map raises KeyError, which the callback answers with stop_animation.
show_frame ==
  LET tick == Head(pending)
      frame_num == tick.frame_nums[(tick.index % Len(tick.frame_nums)) + 1]
  IN
  /\ pending # << >>
  /\ IF ~animation_running
       THEN /\ pending' = Tail(pending)
            /\ UNCHANGED << animation_running, animation_current_frame,
                            animation_current_strokes, play_pre,
                            current_keyframe, strokes, erase_state_saved >>
       ELSE IF frame_num \in DOMAIN keyframes
         THEN /\ pending' = Append(Tail(pending),
                                   [tick EXCEPT !.index = (tick.index + 1) % Len(tick.frame_nums)])
              /\ UNCHANGED << animation_running, animation_current_frame,
                              animation_current_strokes, play_pre,
                              current_keyframe, strokes, erase_state_saved >>
         ELSE /\ animation_running' = FALSE
              /\ pending' = Stopped(Tail(pending))
              /\ play_pre' = NoPlay
              /\ current_keyframe' = animation_current_frame[1]
              /\ strokes' = animation_current_strokes[1]
              /\ animation_current_strokes' = << >>
              /\ erase_state_saved' = redraw_canvas(erase_state_saved)
              /\ UNCHANGED animation_current_frame
  /\ drag' = OtherDrag("show_frame")
  /\ Log("show_frame")
  /\ UNCHANGED << keyframes, current_stroke, is_drawing, current_tool, history,
                  redo_stack, last_xy, last_event, sys_clipboard >>

(***************************************************************************)
(* The document after OptiflowApp.__init__ and the specifications.         *)
(***************************************************************************)
\* The document right after OptiflowApp.__init__.
Constructed ==
  /\ keyframes = << >>
  /\ current_keyframe = 1
  /\ strokes = << >>
  /\ current_stroke = << >>
  /\ is_drawing = FALSE
  /\ current_tool = "pencil"
  /\ history = << << >> >>
  /\ redo_stack = << >>
  /\ erase_state_saved = "absent"
  /\ last_xy = << >>
  /\ last_event = << >>
  /\ sys_clipboard = EmptyClipboard
  /\ animation_running = FALSE
  /\ animation_current_frame = << >>
  /\ animation_current_strokes = << >>
  /\ pending = << >>
  /\ play_pre = NoPlay
  /\ steps = 0
  /\ oplog = << >>
  /\ drag = NoDrag
  /\ copied = NoCopy

Init == Constructed /\ call = << >> /\ result = << >>

\* play_animation unbinds the three pointer handlers, stop_animation binds
\* them again.
Pointer(S) ==
  /\ ~animation_running
  /\ \/ \E rel \in S : start_stroke(rel)
     \/ \E rel \in S : continue_stroke(rel)
     \/ end_stroke

Tools == \E t \in { "pencil", "eraser" } : t # current_tool /\ set_tool(t)

\* The engine runs only when the three entries parse and both frames exist.
EngineRuns(inp) ==
  /\ IsInt(inp[1]) /\ IsInt(inp[2]) /\ IsInt(inp[3])
  /\ IntOf[inp[1]] \in DOMAIN keyframes /\ IntOf[inp[2]] \in DOMAIN keyframes

Interpolate ==
  \E inp \in InterpInputs :
    \E fail_at \in (IF EngineRuns(inp) THEN 0..IntOf[inp[3]] ELSE {0}),
       snap \in (IF EngineRuns(inp) THEN SnapShifts ELSE { << 0, 0 >> }) :
      interpolate_frames(inp[1], inp[2], inp[3], fail_at, snap)

SetKeyframe == \E text \in EntryTexts : set_keyframe(text)

ClipboardSet == \E payload \in ExternalPayloads : clipboard_set(payload)

Play == \E fps_text \in FpsTexts : play_animation(fps_text)

\* Every handler of the document, with every enumerated input.
Next ==
  \/ steps < MaxSteps /\ Pointer(Samples)
  \/ steps < MaxSteps /\ Tools
  \/ steps < MaxSteps /\ undo
  \/ steps < MaxSteps /\ redo
  \/ steps < MaxSteps /\ SetKeyframe
  \/ steps < MaxSteps /\ next_keyframe
  \/ steps < MaxSteps /\ prev_keyframe
  \/ steps < MaxSteps /\ clear_canvas
  \/ steps < MaxSteps /\ copy_strokes
  \/ steps < MaxSteps /\ paste_strokes
  \/ steps < MaxSteps /\ ClipboardSet
  \/ steps < MaxSteps /\ Interpolate
  \/ steps < MaxSteps /\ Play
  \/ steps < MaxSteps /\ stop_animation
  \/ steps < MaxSteps /\ show_frame

Spec == Init /\ [][Next]_vars

(***************************************************************************)
(* SpecEdit: editing within one frame (pointer, tools, undo, redo, clear)  *)
(* with a finer pointer grid and a longer run.                             *)
(***************************************************************************)
NextEdit ==
  \/ steps < MaxEditSteps /\ Pointer(EditSamples)
  \/ steps < MaxEditSteps /\ Tools
  \/ steps < MaxEditSteps /\ undo
  \/ steps < MaxEditSteps /\ redo
  \/ steps < MaxEditSteps /\ clear_canvas

SpecEdit == Init /\ [][NextEdit]_vars

(***************************************************************************)
(* SpecHist: every handler, started from the documents whose undo stack is *)
(* at or next to its capacity.  A click with the eraser on the empty first *)
(* frame pushes one empty snapshot and changes nothing else, so after      *)
(* k - 1 such clicks (and the pencil selected again) the document is the   *)
(* initial one with k empty snapshots and erase_state_saved = False.       *)
(***************************************************************************)
InitHist ==
  /\ keyframes = << >>
  /\ current_keyframe = 1
  /\ strokes = << >>
  /\ current_stroke = << >>
  /\ is_drawing = FALSE
  /\ current_tool = "pencil"
  /\ \E k \in { max_history - 1, max_history } :
       history = [i \in 1..k |-> << >>]
  /\ redo_stack = << >>
  /\ erase_state_saved = "False"
  /\ last_xy = << >>
  /\ last_event = << >>
  /\ sys_clipboard = EmptyClipboard
  /\ animation_running = FALSE
  /\ animation_current_frame = << >>
  /\ animation_current_strokes = << >>
  /\ pending = << >>
  /\ play_pre = NoPlay
  /\ steps = 0
  /\ oplog = << >>
  /\ drag = NoDrag
  /\ copied = NoCopy
  /\ call = << >>
  /\ result = << >>

NextHist ==
  \/ steps < MaxHistSteps /\ Pointer(Samples)
  \/ steps < MaxHistSteps /\ Tools
  \/ steps < MaxHistSteps /\ undo
  \/ steps < MaxHistSteps /\ redo
  \/ steps < MaxHistSteps /\ SetKeyframe
  \/ steps < MaxHistSteps /\ next_keyframe
  \/ steps < MaxHistSteps /\ prev_keyframe
  \/ steps < MaxHistSteps /\ clear_canvas
  \/ steps < MaxHistSteps /\ copy_strokes
  \/ steps < MaxHistSteps /\ paste_strokes
  \/ steps < MaxHistSteps /\ ClipboardSet
  \/ steps < MaxHistSteps /\ Interpolate
  \/ steps < MaxHistSteps /\ Play
  \/ steps < MaxHistSteps /\ stop_animation
  \/ steps < MaxHistSteps /\ show_frame

SpecHist == InitHist /\ [][NextHist]_vars

(***************************************************************************)
(* SpecCommits: a fresh document on which the same two-point stroke is     *)
(* drawn and committed MaxCommits times in a row.                          *)
(***************************************************************************)
DrawStart == Len(strokes) < MaxCommits /\ start_stroke(<< 10, 10 >>)

DrawMove == Len(current_stroke) < 2 /\ continue_stroke(<< 20, 10 >>)

DrawEnd == Len(current_stroke) = 2 /\ end_stroke

NextCommits == DrawStart \/ DrawMove \/ DrawEnd

SpecCommits == Init /\ [][NextCommits]_vars

(***************************************************************************)
(* SpecErase: the eraser on a document that holds one five-point stroke.   *)
(* The document is the one reached from the constructed one by pasting the *)
(* stroke from the system clipboard and selecting the eraser: paste leaves *)
(* the Frame map alone and pushes the new buffer on the history.           *)
(***************************************************************************)
\* Five-point strokes on the line y = 20: evenly spaced by 20, and with the
\* three interior points 8 apart.
EraseBuffers ==
  { << << << 20, 20 >>, << 40, 20 >>, << 60, 20 >>, << 80, 20 >>, << 100, 20 >> >> >>,
    << << << 20, 20 >>, << 52, 20 >>, << 60, 20 >>, << 68, 20 >>, << 100, 20 >> >> >> }

\* Eraser positions in display coordinates, on the line of the strokes.
EraseSamples ==
  { << 10, 10 >>, << 20, 10 >>, << 25, 10 >>, << 30, 10 >>, << 35, 10 >>,
    << 40, 10 >>, << 60, 10 >> }

InitErase ==
  /\ keyframes = << >>
  /\ current_keyframe = 1
  /\ \E buf \in EraseBuffers :
       /\ strokes = buf
       /\ history = save_state(<< << >> >>, buf)
       /\ sys_clipboard = JsonDumps(buf)
  /\ current_stroke = << >>
  /\ is_drawing = FALSE
  /\ current_tool = "eraser"
  /\ redo_stack = << >>
  /\ erase_state_saved = "absent"
  /\ last_xy = << >>
  /\ last_event = << >>
  /\ animation_running = FALSE
  /\ animation_current_frame = << >>
  /\ animation_current_strokes = << >>
  /\ pending = << >>
  /\ play_pre = NoPlay
  /\ steps = 0
  /\ oplog = << [op |-> "set_tool", pre |-> << >>] >>
  /\ drag = NoDrag
  /\ copied = NoCopy
  /\ call = << >>
  /\ result = << >>

NextErase ==
  \/ steps < MaxEraseSteps /\ Pointer(EraseSamples)
  \/ steps < MaxEraseSteps /\ undo

SpecErase == InitErase /\ [][NextErase]_vars

(***************************************************************************)
(* SpecCapture: the pointer handlers and the tool selection on a fresh     *)
(* document, with samples on both sides of the left and the right edge of  *)
(* the surface and at spacings that are not multiples of max_spacing.      *)
(***************************************************************************)
CaptureSamples ==
  { << -10, 10 >>, << -10, 30 >>, << 10, -10 >>, << 0, 10 >>, << 10, 10 >>,
    << 25, 10 >>, << 40, 10 >>, << 958, 10 >>, << 960, 10 >> }

\* Motion and release events that reach the handlers with no press before
\* them.
IdleMove == \E rel \in CaptureSamples : continue_stroke_idle(rel)

NextCapture ==
  \/ steps < MaxCaptureSteps /\ Pointer(CaptureSamples)
  \/ steps < MaxCaptureSteps /\ Tools
  \/ steps < MaxCaptureSteps /\ IdleMove
  \/ steps < MaxCaptureSteps /\ end_stroke_idle

SpecCapture == Init /\ [][NextCapture]_vars

(***************************************************************************)
(* SpecIntersect: calculate_boundary_intersection called directly on every *)
(* segment between two points of a grid around the surface.                *)
(***************************************************************************)
IntersectPoints ==
  { -10, 0, 10, display_width - 2, display_width, display_width + 10 }
    \X { -10, 0, 10, display_height, display_height + 10 }

IntersectCalls ==
  [ fn : { "calculate_boundary_intersection" }, p1 : IntersectPoints,
    p2 : IntersectPoints ]

InitIntersect == Constructed /\ call \in IntersectCalls /\ result = << >>

CallIntersect ==
  /\ call # << >> /\ call.fn = "calculate_boundary_intersection" /\ result = << >>
  /\ result' = << calculate_boundary_intersection(call.p1[1], call.p1[2],
                                                  call.p2[1], call.p2[2]) >>
  /\ UNCHANGED << keyframes, current_keyframe, strokes, current_stroke,
                  is_drawing, current_tool, history, redo_stack,
                  erase_state_saved, last_xy, last_event, sys_clipboard,
                  playback, steps, oplog, drag, copied, call >>

SpecIntersect == InitIntersect /\ [][CallIntersect]_vars

(***************************************************************************)
(* SpecFrames: editing on several keyframes.  The handlers that change the *)
(* buffer or the current keyframe, with two pointer positions, in runs     *)
(* long enough to edit one keyframe while another one holds strokes.       *)
(***************************************************************************)
FrameSamples == { <<10, 10>>, <<30, 10>> }

NextFrames ==
  \/ steps < MaxFrameSteps /\ Pointer(FrameSamples)
  \/ steps < MaxFrameSteps /\ Tools
  \/ steps < MaxFrameSteps /\ undo
  \/ steps < MaxFrameSteps /\ redo
  \/ steps < MaxFrameSteps /\ next_keyframe
  \/ steps < MaxFrameSteps /\ prev_keyframe
  \/ steps < MaxFrameSteps /\ clear_canvas
  \/ steps < MaxFrameSteps /\ copy_strokes
  \/ steps < MaxFrameSteps /\ paste_strokes

SpecFrames == Init /\ [][NextFrames]_vars

(***************************************************************************)
(* SpecEngine: the Flow Interpolation Engine called directly, with every   *)
(* pair of the frames below, the factors 0, 1/2 and 1, both outcomes of    *)
(* the backend run and both snapping displacements.                        *)
(***************************************************************************)
EngineStrokes ==
  [ a |-> << << 0, 0 >>, << 20, 0 >> >>,
    b |-> << << 10, 10 >>, << 30, 20 >> >>,
    c |-> << << 0, 40 >>, << 10, 40 >>, << 20, 44 >> >>,
    d |-> << << 0, 0 >>, << 10, 0 >>, << 10, 10 >> >>,
    e |-> << << 0, 10 >>, << 10, 10 >>, << 10, 0 >> >> ]

EngineFrames ==
  { << >>, << EngineStrokes.a >>, << EngineStrokes.b >>, << EngineStrokes.c >>,
    << EngineStrokes.a, EngineStrokes.c >>, << EngineStrokes.b, EngineStrokes.c >>,
    << EngineStrokes.d >>, << EngineStrokes.e >> }

\* factor as a pair << numerator, denominator >>
Factors == { << 0, 1 >>, << 1, 2 >>, << 1, 1 >> }

EngineCalls ==
  [ fn : { "optical_flow_interpolate" }, start_strokes : EngineFrames,
    end_strokes : EngineFrames, factor : Factors, ok : BOOLEAN,
    snap : SnapShifts ]

InitEngine == Constructed /\ call \in EngineCalls /\ result = << >>

CallEngine ==
  /\ call # << >> /\ call.fn = "optical_flow_interpolate" /\ result = << >>
  /\ result' = << optical_flow_interpolate(call.start_strokes, call.end_strokes,
                                           call.factor[1], call.factor[2],
                                           call.ok, call.snap) >>
  /\ UNCHANGED << keyframes, current_keyframe, strokes, current_stroke,
                  is_drawing, current_tool, history, redo_stack,
                  erase_state_saved, last_xy, last_event, sys_clipboard,
                  playback, steps, oplog, drag, copied, call >>

SpecEngine == InitEngine /\ [][CallEngine]_vars

(***************************************************************************)
(* Properties.                                                             *)
(***************************************************************************)
\* The handlers of the log, newest last.
LogOps == [i \in 1..Len(oplog) |-> oplog[i].op]

\* The log ends with the handlers ops, in this order.
LogEnds(ops) ==
  /\ Len(oplog) >= Len(ops)
  /\ SubSeq(LogOps, Len(oplog) - Len(ops) + 1, Len(oplog)) = ops

\* The Frame stored under k, empty when k has no entry.
FrameOf(kfs, k) == IF k \in DOMAIN kfs THEN kfs[k] ELSE << >>

\* A step of set_keyframe, next_keyframe or prev_keyframe that changes the
\* current keyframe.
Switch ==
  /\ SetKeyframe \/ next_keyframe \/ prev_keyframe
  /\ current_keyframe' # current_keyframe

\* C1: a pencil stroke commit followed by one undo leaves the Working Buffer
\* equal to the buffer as it was right before the commit.
C1_UndoRestoresPreStroke ==
  LogEnds(<< "commit", "undo" >>) => strokes = oplog[Len(oplog) - 1].pre

\* C2: after a stroke commit and an undo, an immediately following redo makes
\* the Working Buffer equal to the buffer right after the commit (which is
\* the buffer the undo started from).
C2_RedoRestoresPostStroke ==
  LogEnds(<< "commit", "undo", "redo" >>) => strokes = oplog[Len(oplog) - 1].pre

\* C2 witness: a commit, an undo and a redo have run in a row and the buffer
\* again holds the committed stroke, which the undo had removed.
C2_Witness ==
  /\ LogEnds(<< "commit", "undo", "redo" >>)
  /\ strokes = oplog[Len(oplog) - 1].pre
  /\ oplog[Len(oplog)].pre # strokes
  /\ strokes # << >>

\* C3: a switch from keyframe a to another keyframe b leaves the Working
\* Buffer equal to the Frame b held before the switch (empty if b had none)
\* and leaves the stored Frame b as it was.
C3_SwitchLoadsTargetFrame ==
  [][ Switch =>
        /\ strokes' = FrameOf(keyframes, current_keyframe')
        /\ FrameOf(keyframes', current_keyframe') = FrameOf(keyframes, current_keyframe')
    ]_vars

\* C4: a switch from keyframe a to another keyframe b leaves the Frame stored
\* under a equal to the Working Buffer as it was right before the switch.
C4_SwitchFlushesBuffer ==
  [][ Switch => FrameOf(keyframes', current_keyframe) = strokes ]_vars

\* C5: after a switch to another keyframe the undo history is exactly one
\* entry equal to the loaded Working Buffer and the redo stack is empty; and
\* with such a history undo and redo change nothing.
C5_SwitchResetsHistory ==
  [][ /\ Switch => (history' = << strokes' >> /\ redo_stack' = << >>)
      /\ ((undo \/ redo) /\ Len(history) = 1 /\ redo_stack = << >>)
           => UNCHANGED << strokes, history, redo_stack, keyframes, current_keyframe >>
    ]_vars

\* C5 witness: next_keyframe or prev_keyframe has just loaded a frame that
\* holds strokes, coming from a frame with another content, and the history
\* is the single loaded buffer.
C5_Witness ==
  /\ Len(oplog) = 1
  /\ oplog[1].op \in { "next_keyframe", "prev_keyframe", "set_keyframe" }
  /\ strokes # << >>
  /\ \E k \in DOMAIN keyframes : k # current_keyframe /\ keyframes[k] # strokes
  /\ history = << strokes >>
  /\ redo_stack = << >>

\* C6: a finished eraser drag whose applications all ran on a non-empty
\* Working Buffer has pushed exactly one history snapshot.
C6_OneSnapshotPerEraserDrag ==
  (drag.done /\ drag.tool = "eraser" /\ drag.apps >= 1 /\ drag.nonempty)
    => drag.snaps = 1

\* C7: after an eraser drag whose applications each removed points, a single
\* undo leaves the Working Buffer equal to the buffer at the start of the drag.
C7_UndoRevertsEraserDrag ==
  ( /\ LogEnds(<< "end_stroke", "undo" >>)
    /\ drag.done /\ drag.tool = "eraser" /\ drag.apps >= 1 /\ drag.removing )
    => strokes = drag.pre

\* C8: a stroke commit, eraser application, paste or clear that changes the
\* Working Buffer or the current Frame leaves the redo stack empty (so that a
\* redo after it changes nothing).
C8_MutationClearsRedo ==
  [][ ( /\ \/ Pointer(Samples)
           \/ paste_strokes
           \/ clear_canvas
        /\ \/ strokes' # strokes
           \/ FrameOf(keyframes', current_keyframe) # FrameOf(keyframes, current_keyframe) )
      => redo_stack' = << >>
    ]_vars

\* C9: the undo history always holds at least one and at most max_history
\* entries.
C9_HistoryBounded ==
  /\ 1 <= Len(history)
  /\ Len(history) <= max_history

\* C9 witness: a redo has just appended to a history that is now at capacity,
\* with a buffer that holds a stroke.
C9_Witness ==
  /\ LogEnds(<< "undo", "redo" >>)
  /\ Len(history) = max_history
  /\ strokes # << >>

\* C10 as amended: after max_history + 10 consecutive stroke commits on a
\* fresh document the undo stack holds exactly max_history entries, the
\* snapshots of commits 11 .. max_history + 10: the oldest 11 entries (the
\* initial empty snapshot and the snapshots of the first 10 commits) are gone.
C10_CapacityAfterCommits ==
  (Len(strokes) = max_history + 10 /\ ~is_drawing)
    => /\ Len(history) = max_history
       /\ \A i \in 1..Len(history) : Len(history[i]) = 10 + i

\* C10 witness: max_history + 10 strokes have been committed.
C10_Witness ==
  /\ Len(strokes) = max_history + 10
  /\ ~is_drawing
  /\ LogEnds(<< "commit" >>)
  /\ Len(history) = max_history

\* C10 as stated: after max_history + 10 consecutive commits the undo stack
\* holds max_history entries and exactly the 10 oldest entries were discarded,
\* so that the oldest entry left is the 11th one pushed, the snapshot of the
\* 10th commit.
C10_OldestTenDiscarded ==
  (Len(strokes) = max_history + 10 /\ ~is_drawing)
    => /\ Len(history) = max_history
       /\ Len(history[1]) = 10

\* C11: undo with a single history entry changes nothing (Working Buffer,
\* history, redo stack, keyframe map); with more entries it moves the top
\* history entry onto the redo stack and leaves the Working Buffer equal to
\* the new top of the history.
C11_UndoContract ==
  [][ undo =>
        IF Len(history) <= 1
          THEN UNCHANGED << strokes, history, redo_stack, keyframes, current_keyframe >>
          ELSE /\ redo_stack' = Append(redo_stack, history[Len(history)])
               /\ history' = SubSeq(history, 1, Len(history) - 1)
               /\ strokes' = history'[Len(history')]
               /\ UNCHANGED << keyframes, current_keyframe >>
    ]_vars

\* C11 witness: an undo has just moved an entry to the redo stack and changed
\* the Working Buffer, which now equals the top of the history.
C11_Witness ==
  /\ LogEnds(<< "undo" >>)
  /\ redo_stack # << >>
  /\ strokes = history[Len(history)]
  /\ strokes # oplog[Len(oplog)].pre

\* Every stroke of the buffer has at least 2 points.
ValidBuffer(buf) == \A i \in 1..Len(buf) : Len(buf[i]) >= 2

\* C12: in every reachable state every stroke of the Working Buffer, of every
\* Frame of the keyframe map and of every undo / redo history entry has at
\* least 2 points.
C12_NoShortStroke ==
  /\ ValidBuffer(strokes)
  /\ \A k \in DOMAIN keyframes : ValidBuffer(keyframes[k])
  /\ \A i \in 1..Len(history) : ValidBuffer(history[i])
  /\ \A i \in 1..Len(redo_stack) : ValidBuffer(redo_stack[i])

\* C12 witness: a paste of a payload that holds a stroke with fewer than 2
\* valid points has just appended its valid strokes to the buffer and pushed
\* a snapshot.
C12_Witness ==
  /\ LogEnds(<< "paste_strokes" >>)
  /\ sys_clipboard.kind = "list"
  /\ \E i \in 1..Len(sys_clipboard.items) :
        Len(ValidPoints(sys_clipboard.items[i].pts)) < 2
  /\ strokes # << >>
  /\ history[Len(history)] = strokes

\* C13: on pointer-up while drawing with the pencil, an accumulator of at
\* least 2 points is appended as the last stroke of the Working Buffer, the
\* current Frame is set equal to the buffer and one snapshot of it is pushed;
\* a shorter accumulator leaves buffer, keyframe map, history and redo stack
\* unchanged; the accumulator is empty afterwards either way.
C13_PointerUpCommits ==
  [][ (end_stroke /\ current_tool = "pencil") =>
        /\ IF Len(current_stroke) >= 2
             THEN /\ strokes' = Append(strokes, current_stroke)
                  /\ current_keyframe \in DOMAIN keyframes'
                  /\ keyframes'[current_keyframe] = strokes'
                  /\ history' = IF Len(history) < max_history
                                  THEN Append(history, strokes')
                                  ELSE Append(Tail(history), strokes')
             ELSE UNCHANGED << strokes, keyframes, history, redo_stack >>
        /\ current_stroke' = << >>
    ]_vars

\* C13 witness: a pointer-up has just committed the accumulator: the buffer
\* is one stroke longer than before, the current Frame and the newest
\* history entry equal it, and the accumulator is empty.
C13_Witness ==
  /\ LogEnds(<< "commit" >>)
  /\ Len(strokes) = Len(oplog[Len(oplog)].pre) + 1
  /\ current_keyframe \in DOMAIN keyframes
  /\ keyframes[current_keyframe] = strokes
  /\ history[Len(history)] = strokes
  /\ current_stroke = << >>

\* C14: clearing the current keyframe empties the Working Buffer and removes
\* that keyframe's entry from the keyframe map (the key is absent afterwards);
\* every other entry of the map is left as it was.
C14_ClearRemovesEntry ==
  [][ clear_canvas =>
        /\ strokes' = << >>
        /\ DOMAIN keyframes' = DOMAIN keyframes \ { current_keyframe }
        /\ \A k \in DOMAIN keyframes' : keyframes'[k] = keyframes[k]
    ]_vars

\* C14 witness: a clear has just run on a keyframe: the buffer is empty, the
\* current keyframe has no entry, and another Frame still holds its strokes.
C14_Witness ==
  /\ LogEnds(<< "clear_canvas" >>)
  /\ strokes = << >>
  /\ current_keyframe \notin DOMAIN keyframes
  /\ \E k \in DOMAIN keyframes : keyframes[k] # << >>

\* C15: only a clear removes a key from the keyframe map (no step of any
\* other handler does), and an eraser application that removes the last
\* strokes of the buffer leaves the current keyframe's entry present, holding
\* an empty stroke list.
C15_OnlyClearRemovesKey ==
  [][ /\ ~(DOMAIN keyframes \subseteq DOMAIN keyframes') => clear_canvas
      /\ ( /\ (\E rel \in Samples : start_stroke(rel) \/ continue_stroke(rel))
           /\ strokes # << >> /\ strokes' = << >> )
         => ( /\ current_keyframe \in DOMAIN keyframes'
              /\ keyframes'[current_keyframe] = << >> )
    ]_vars

\* C15 witness: an eraser application has just removed the last stroke of the
\* buffer (the snapshot it pushed holds strokes) and the current keyframe maps
\* to an empty list.
C15_Witness ==
  /\ LogEnds(<< "erase" >>)
  /\ strokes = << >>
  /\ history[Len(history)] # << >>
  /\ current_keyframe \in DOMAIN keyframes
  /\ keyframes[current_keyframe] = << >>

\* C16: set_keyframe, play_animation and interpolate_frames called with a
\* non-numeric entry leave the document as it was: Working Buffer, keyframe
\* map, current keyframe, undo history, redo stack and the playback-running
\* flag are unchanged.
C16_InvalidInputChangesNothing ==
  [][ ( \/ set_keyframe("x")
        \/ play_animation("x")
        \/ interpolate_frames("1", "2", "x", 0, << 0, 0 >>) )
      => UNCHANGED << strokes, keyframes, current_keyframe, history, redo_stack,
                      animation_running >>
    ]_vars

\* C17: interpolate_frames with numeric entries whose start or end keyframe
\* is absent from the keyframe map creates or changes no Frame and leaves the
\* keyframe map, the Working Buffer and the current keyframe as they were.
C17_FrameNotFoundChangesNothing ==
  [][ (\E inp \in InterpInputs :
         /\ IsInt(inp[1]) /\ IsInt(inp[2]) /\ IsInt(inp[3])
         /\ ~EngineRuns(inp)
         /\ interpolate_frames(inp[1], inp[2], inp[3], 0, << 0, 0 >>))
      => UNCHANGED << keyframes, strokes, current_keyframe >>
    ]_vars

\* C17 witness: interpolate_frames has just refused a call because a frame
\* was absent, on a document that holds a Frame and a non-empty buffer.
C17_Witness ==
  /\ LogEnds(<< "interpolate_notfound" >>)
  /\ keyframes # << >>
  /\ strokes # << >>

\* C18: when the flow engine fails in one of the runs of an interpolate call
\* the call commits nothing: the keyframe map after the call equals the map
\* before it (no Frame added, emptied or overwritten, results of the earlier
\* runs discarded).
C18_EngineFailureCommitsNothing ==
  [][ (\E inp \in InterpInputs :
         /\ EngineRuns(inp)
         /\ \E fail_at \in 1..IntOf[inp[3]], snap \in SnapShifts :
              interpolate_frames(inp[1], inp[2], inp[3], fail_at, snap))
      => keyframes' = keyframes
    ]_vars

\* C19: stop_animation called while no playback runs changes nothing; called
\* while the playback runs it ends the playback and leaves the Working Buffer
\* and the current keyframe equal to their values at the moment
\* play_animation started it, whatever ran in between.
C19_StopRestoresPrePlayback ==
  [][ /\ (stop_animation /\ ~animation_running)
           => UNCHANGED << strokes, current_keyframe, keyframes, history,
                           redo_stack, animation_running >>
      /\ (stop_animation /\ animation_running)
           => /\ ~animation_running'
              /\ strokes' = play_pre.strokes
              /\ current_keyframe' = play_pre.frame
    ]_vars

\* C19 witness: stop_animation has just ended a playback during which the
\* buffer or the current keyframe had been changed, and has put them back.
C19_Witness ==
  /\ LogEnds(<< "stop_restore" >>)
  /\ ~animation_running
  /\ animation_current_frame = << current_keyframe >>
  /\ animation_current_strokes = << >>

\* The strokes of a decoded payload that remain after filtering: the items
\* that are lists, each reduced to its points that are pairs of numbers, in
\* order, and of these the strokes that keep at least 2 points, in order.
FilteredPayload(items) ==
  LET lists == SelectSeq(items, LAMBDA it : it.kind = "list")
      points(pts) == LET ok == SelectSeq(pts, LAMBDA q : q.kind = "pair")
                     IN  [j \in 1..Len(ok) |-> << ok[j].x, ok[j].y >>]
      cleaned == [i \in 1..Len(lists) |-> points(lists[i].pts)]
  IN  SelectSeq(cleaned, LAMBDA st : Len(st) >= 2)

\* C20: pasting a decoded payload appends to the Working Buffer exactly the
\* strokes that remain after filtering (non-list strokes, invalid points and
\* strokes left with fewer than 2 valid points are dropped; order is kept),
\* and a payload with no valid stroke leaves the buffer, the history and the
\* redo stack unchanged.
C20_PasteAppendsFiltered ==
  [][ (paste_strokes /\ sys_clipboard.kind = "list") =>
        /\ strokes' = strokes \o FilteredPayload(sys_clipboard.items)
        /\ FilteredPayload(sys_clipboard.items) = << >>
             => UNCHANGED << strokes, history, redo_stack >>
    ]_vars

\* C20 witness: a paste of the payload with malformed entries has just
\* appended its two valid strokes, in order, to a buffer that already held a
\* stroke.
C20_Witness ==
  /\ LogEnds(<< "paste_strokes" >>)
  /\ sys_clipboard = MalformedPayload
  /\ Len(strokes) >= 3
  /\ SubSeq(strokes, Len(strokes) - 1, Len(strokes))
       = << << << 6, 6 >>, << 7, 7 >> >>, << << 8, 8 >>, << 9, 9 >> >> >>

\* C21 as amended: a paste that follows a copy of a non-empty Working Buffer
\* (whatever edits and keyframe switches ran in between, nothing else having
\* written the clipboard) appends strokes equal, point for point and in the
\* same order, to the buffer at copy time, behind the strokes already there.
C21_PasteAppendsCopied ==
  [][ (paste_strokes /\ copied.valid /\ copied.buf # << >>)
        => strokes' = strokes \o copied.buf
    ]_vars

\* C21 witness: a paste has just appended the strokes of an earlier copy
\* behind strokes the buffer already held.
C21_Witness ==
  /\ LogEnds(<< "paste_strokes" >>)
  /\ copied.valid
  /\ copied.buf # << >>
  /\ Len(strokes) > Len(copied.buf)
  /\ SubSeq(strokes, Len(strokes) - Len(copied.buf) + 1, Len(strokes)) = copied.buf

\* C21 as stated: a paste that follows a copy appends strokes equal to the
\* strokes that were in the buffer at copy time (none when it was empty).
C21_PasteAppendsBufferAtCopy ==
  [][ (paste_strokes /\ copied.valid) => strokes' = strokes \o copied.buf ]_vars

\* The runs i of a call with count inbetweens whose result the claim stores
\* under keyframe k: k is start + i * (end - start) / (count + 1) cut to an
\* integer (the frame numbers are positive, so k <= the quotient < k + 1).
RunsStoredAt(k, start, end, count) ==
  { i \in 1..count :
      /\ k * (count + 1) <= start * (count + 1) + i * (end - start)
      /\ start * (count + 1) + i * (end - start) < (k + 1) * (count + 1) }

\* C22: a successful interpolate_frames(start, end, count) stores, for
\* i = 1..count in turn, the result of the engine at factor i / (count + 1)
\* under keyframe start + i * (end - start) / (count + 1) cut to an integer
\* (so a keyframe holds the result of the last run stored under it) and
\* changes no other Frame; with count <= 0 it stores nothing.
C22_InterpolateRuns ==
  [][ \A inp \in InterpInputs, snap \in SnapShifts :
        (EngineRuns(inp) /\ interpolate_frames(inp[1], inp[2], inp[3], 0, snap)) =>
          LET start == IntOf[inp[1]]
              end == IntOf[inp[2]]
              count == IntOf[inp[3]]
              last(k) == CHOOSE i \in RunsStoredAt(k, start, end, count) :
                           \A j \in RunsStoredAt(k, start, end, count) : j <= i
          IN  /\ DOMAIN keyframes' =
                   DOMAIN keyframes
                     \cup { k \in 0..4 : RunsStoredAt(k, start, end, count) # {} }
              /\ \A k \in DOMAIN keyframes' :
                   keyframes'[k] =
                     IF RunsStoredAt(k, start, end, count) # {}
                       THEN extract_strokes_from_image(keyframes[start], keyframes[end],
                                                       last(k), count + 1, snap)
                       ELSE keyframes[k]
    ]_vars

\* C22 witness: an interpolation between keyframes 1 and 3 has just stored a
\* Frame with strokes under keyframe 2.
C22_Witness ==
  /\ LogEnds(<< "interpolate_frames" >>)
  /\ { 1, 2, 3 } \subseteq DOMAIN keyframes
  /\ keyframes[1] # << >>
  /\ keyframes[2] # << >>
  /\ keyframes[3] # << >>

\* The frames pair up stroke by stroke with equal point counts.
EqualPointCounts(f, g) ==
  /\ Len(f) = Len(g)
  /\ \A j \in 1..Len(f) : Len(f[j]) = Len(g[j])

\* The frame with every point moved by the displacement d.
Moved(f, d) ==
  [j \in 1..Len(f) |->
     [k \in 1..Len(f[j]) |-> << f[j][k][1] + d[1], f[j][k][2] + d[2] >>]]

\* C23: for two frames whose paired strokes have equal point counts, a
\* successful engine run at factor 0 returns the start frame's strokes and
\* a successful run at factor 1 the end frame's strokes, each point moved
\* by what the snapping step adds to it: exactly the frame's strokes when
\* the snapping step adds nothing.
C23_BoundaryFactorsUpToSnap ==
  (result # << >> /\ call.ok /\ EqualPointCounts(call.start_strokes, call.end_strokes))
    => /\ call.factor = << 0, 1 >> => result[1] = Moved(call.start_strokes, call.snap)
       /\ call.factor = << 1, 1 >> => result[1] = Moved(call.end_strokes, call.snap)
       /\ (call.factor = << 0, 1 >> /\ call.snap = << 0, 0 >>)
            => result[1] = call.start_strokes
       /\ (call.factor = << 1, 1 >> /\ call.snap = << 0, 0 >>)
            => result[1] = call.end_strokes

\* C23 witness: the engine has run at factor 0 on two different non-empty
\* frames with equal point counts and the snapping step moved the points.
C23_Witness ==
  /\ result # << >> /\ call.ok /\ call.factor = << 0, 1 >>
  /\ call.start_strokes # << >> /\ call.start_strokes # call.end_strokes
  /\ EqualPointCounts(call.start_strokes, call.end_strokes)
  /\ call.snap # << 0, 0 >>
  /\ result[1] = Moved(call.start_strokes, call.snap)

\* C23 as stated: for two frames whose paired strokes have equal point
\* counts, a successful engine run at factor 0 returns exactly the start
\* frame's strokes and a successful run at factor 1 exactly the end frame's
\* strokes, whatever the snapping step found.
C23_BoundaryFactorsExact ==
  (result # << >> /\ call.ok /\ EqualPointCounts(call.start_strokes, call.end_strokes))
    => /\ call.factor = << 0, 1 >> => result[1] = call.start_strokes
       /\ call.factor = << 1, 1 >> => result[1] = call.end_strokes

\* C24: prev_keyframe at current keyframe 1 changes neither the current
\* keyframe nor the Working Buffer nor the history; at current keyframe
\* k > 1 it makes k - 1 the current keyframe.
C24_PrevKeyframeFloor ==
  [][ prev_keyframe =>
        /\ current_keyframe = 1 =>
              UNCHANGED << current_keyframe, strokes, history >>
        /\ current_keyframe > 1 => current_keyframe' = current_keyframe - 1
    ]_vars

\* C24 witness: prev_keyframe has just moved the document from keyframe 3
\* to keyframe 2.
C24_Witness == LogEnds(<< "prev_keyframe" >>) /\ current_keyframe = 2

\* The indices of the points of the stroke at Euclidean distance at most
\* the eraser radius (eraser_size / 2) from << cx, cy >>.
Marked(stroke, cx, cy) ==
  { i \in 1..Len(stroke) :
      4 * ((stroke[i][1] - cx) * (stroke[i][1] - cx)
           + (stroke[i][2] - cy) * (stroke[i][2] - cy)) <= eraser_size * eraser_size }

\* The maximal runs a..b of consecutive indices outside M with at least two
\* indices.
MaximalRuns(stroke, M) ==
  { r \in (1..Len(stroke)) \X (1..Len(stroke)) :
      /\ r[1] < r[2]
      /\ \A i \in r[1]..r[2] : i \notin M
      /\ r[1] = 1 \/ (r[1] - 1) \in M
      /\ r[2] = Len(stroke) \/ (r[2] + 1) \in M }

RECURSIVE RunSeq(_, _)
\* The sub-strokes of the runs R, leftmost first.
RunSeq(stroke, R) ==
  IF R = {} THEN << >>
  ELSE LET r == CHOOSE r \in R : \A q \in R : r[1] <= q[1]
       IN  << SubSeq(stroke, r[1], r[2]) >> \o RunSeq(stroke, R \ {r})

\* The buffer eraseAt is specified to produce.
EraseAt(buf, cx, cy) ==
  SeqConcat([i \in 1..Len(buf) |->
               IF Marked(buf[i], cx, cy) = {} THEN << buf[i] >>
               ELSE RunSeq(buf[i], MaximalRuns(buf[i], Marked(buf[i], cx, cy)))])

\* A pointer press or move that applies the eraser at rel.
EraseStep(rel) ==
  /\ current_tool = "eraser" /\ InCanvas(rel)
  /\ start_stroke(rel) \/ continue_stroke(rel)

\* C25: an eraser application replaces every stroke that has points within
\* the eraser radius by its maximal runs of at least two consecutive points
\* outside it, in order, keeps the other strokes unchanged in place, and the
\* result is the Working Buffer and the current Frame afterwards.
C25_EraseAtSplitsAndSyncs ==
  [][ \A rel \in EditSamples :
        EraseStep(rel) =>
          /\ strokes' = EraseAt(strokes, ToCanvas(rel[1]), ToCanvas(rel[2]))
          /\ FrameOf(keyframes', current_keyframe) = strokes'
    ]_vars

\* The strokes of ss with at least two points, in order.
AtLeastTwo(ss) == SelectSeq(ss, LAMBDA st : Len(st) >= 2)

\* The buffer holds one five-point stroke and the eraser at rel marks a
\* non-empty run lo..hi of its interior points (the second to the fourth)
\* and nothing else.
MarksInteriorRun(rel, lo, hi) ==
  /\ Len(strokes) = 1 /\ Len(strokes[1]) = 5
  /\ 2 <= lo /\ lo <= hi /\ hi <= 4
  /\ Marked(strokes[1], ToCanvas(rel[1]), ToCanvas(rel[2])) = lo..hi

\* C26 as stated: an eraser application that marks a run of interior points
\* of a five-point stroke, and neither endpoint, yields exactly two
\* sub-strokes, the points before the gap and the points after it.
C26_InteriorGapYieldsTwo ==
  [][ \A rel \in EraseSamples, lo \in 2..4, hi \in 2..4 :
        (EraseStep(rel) /\ MarksInteriorRun(rel, lo, hi)) =>
          strokes' = << SubSeq(strokes[1], 1, lo - 1), SubSeq(strokes[1], hi + 1, 5) >>
    ]_vars

\* C26: an eraser application that marks a run of interior points of a
\* five-point stroke, and neither endpoint, yields the points before the gap
\* and the points after the gap, in this order, each only if it has at least
\* two points: both when only the middle point is marked.
C26_InteriorGapKeepsLongSides ==
  [][ \A rel \in EraseSamples, lo \in 2..4, hi \in 2..4 :
        (EraseStep(rel) /\ MarksInteriorRun(rel, lo, hi)) =>
          /\ strokes' = AtLeastTwo(<< SubSeq(strokes[1], 1, lo - 1),
                                      SubSeq(strokes[1], hi + 1, 5) >>)
          /\ (lo = 3 /\ hi = 3) => Len(strokes') = 2
    ]_vars

\* C26 witness: one eraser application on a five-point stroke has marked
\* its middle point only and left the two sub-strokes around it.
C26_Witness ==
  /\ LogEnds(<< "erase" >>) /\ drag.apps = 1
  /\ Len(drag.pre) = 1 /\ Len(drag.pre[1]) = 5
  /\ strokes = << SubSeq(drag.pre[1], 1, 2), SubSeq(drag.pre[1], 4, 5) >>

\* No two consecutive points of the accumulator are farther apart than
\* max_spacing display units, that is 2 * max_spacing canvas units.
GapsWithinThreshold(acc) ==
  \A i \in 1..(Len(acc) - 1) :
    (acc[i + 1][1] - acc[i][1]) * (acc[i + 1][1] - acc[i][1])
      + (acc[i + 1][2] - acc[i][2]) * (acc[i + 1][2] - acc[i][2])
      <= (2 * max_spacing) * (2 * max_spacing)

\* A pointer move with the pencil at rel.
PencilMove(rel) == current_tool = "pencil" /\ continue_stroke(rel)

\* C27: after every pencil pointer-move handled inside the surface no two
\* consecutive points of the accumulator are farther apart than the
\* smoothing threshold of 10 display units.
C27_GapsWithinThreshold ==
  [][ \A rel \in CaptureSamples :
        (PencilMove(rel) /\ InCanvas(rel)) => GapsWithinThreshold(current_stroke')
    ]_vars

\* C28: after a pencil pointer-down outside the surface the accumulator
\* stays empty on every pointer-move that remains outside the surface.
C28_OutsideMovesAddNothing ==
  [][ \A rel \in CaptureSamples :
        (PencilMove(rel) /\ current_stroke = << >> /\ last_event # << >>
           /\ ~InCanvas(last_event) /\ ~InCanvas(rel))
          => current_stroke' = << >>
    ]_vars

\* The candidate c = << xn, yn, d >> lies on the segment from p1 to p2: on
\* the line through them and between them.
OnSegment(c, p1, p2) ==
  /\ (p2[2] - p1[2]) * (c[1] - p1[1] * c[3]) = (p2[1] - p1[1]) * (c[2] - p1[2] * c[3])
  /\ Min2(p1[1], p2[1]) * c[3] <= c[1] /\ c[1] <= Max2(p1[1], p2[1]) * c[3]
  /\ Min2(p1[2], p2[2]) * c[3] <= c[2] /\ c[2] <= Max2(p1[2], p2[2]) * c[3]

\* The candidate c lies on an edge of the rectangle [0, W] x [0, H].
OnRectangleEdge(c) ==
  /\ 0 <= c[1] /\ c[1] <= display_width * c[3]
  /\ 0 <= c[2] /\ c[2] <= display_height * c[3]
  /\ \/ c[1] = 0 \/ c[1] = display_width * c[3]
     \/ c[2] = 0 \/ c[2] = display_height * c[3]

\* C29: calculate_boundary_intersection returns at most one point; a
\* returned point lies on the segment and on an edge of the rectangle
\* [0, W] x [0, H]; a segment of length zero returns none.
C29_IntersectionOnSegmentAndEdge ==
  result # << >> =>
    /\ Len(result[1]) <= 1
    /\ call.p1 = call.p2 => result[1] = << >>
    /\ \A i \in 1..Len(result[1]) :
         OnSegment(result[1][i], call.p1, call.p2) /\ OnRectangleEdge(result[1][i])

\* C29 witness: the call on a segment from a point inside the surface to a
\* point off its edges has returned one point.
C29_Witness ==
  /\ result # << >> /\ Len(result[1]) = 1
  /\ InCanvas(call.p1)
  /\ call.p2[1] > display_width /\ call.p2[2] > display_height

\* The canvas point e lies on an edge of the canvas rectangle and in the
\* bounding box of the display points p and q.
EdgePointBetween(e, p, q) ==
  /\ 0 <= e[1] /\ e[1] <= canvas_width /\ 0 <= e[2] /\ e[2] <= canvas_height
  /\ e[1] \in { 0, canvas_width } \/ e[2] \in { 0, canvas_height }
  /\ ToCanvas(Min2(p[1], q[1])) <= e[1] /\ e[1] <= ToCanvas(Max2(p[1], q[1]))
  /\ ToCanvas(Min2(p[2], q[2])) <= e[2] /\ e[2] <= ToCanvas(Max2(p[2], q[2]))

\* The previous sample and rel lie on different sides of the surface
\* boundary, more than 1 display unit apart.
Crossing(rel) ==
  /\ last_event # << >> /\ last_xy # << >>
  /\ InCanvas(last_event) # InCanvas(rel)
  /\ (last_event[1] - rel[1]) * (last_event[1] - rel[1])
       + (last_event[2] - rel[2]) * (last_event[2] - rel[2]) > 1

LinearBlend(p, q, factor) ==
  << ((factor[2] - factor[1]) * p[1] + factor[1] * q[1]) \div factor[2],
     ((factor[2] - factor[1]) * p[2] + factor[1] * q[2]) \div factor[2] >>

\* C31: the stroke list of a successful engine run has exactly
\* min(count(start), count(end)) strokes; the j-th has the point count of
\* the j-th start and end stroke when they agree and the larger of the two
\* otherwise, and it runs from the blend of their first points to the blend
\* of their last points (moved by the snapping step when the counts agree).
C31_StrokeAndPointCounts ==
  (result # << >> /\ call.ok) =>
    LET s == call.start_strokes
        e == call.end_strokes
        r == result[1]
        d(j) == IF Len(s[j]) = Len(e[j]) THEN call.snap ELSE << 0, 0 >>
        moved(p, j) == << p[1] + d(j)[1], p[2] + d(j)[2] >>
    IN  /\ Len(r) = Min2(Len(s), Len(e))
        /\ \A j \in 1..Len(r) :
             /\ Len(r[j]) = IF Len(s[j]) = Len(e[j]) THEN Len(s[j])
                             ELSE Max2(Len(s[j]), Len(e[j]))
             /\ r[j][1] = moved(LinearBlend(s[j][1], e[j][1], call.factor), j)
             /\ r[j][Len(r[j])]
                  = moved(LinearBlend(s[j][Len(s[j])], e[j][Len(e[j])], call.factor), j)

\* C31 witness: a successful run on a start frame of two strokes and an end
\* frame of one stroke with another point count has returned one stroke
\* with the larger point count.
C31_Witness ==
  /\ result # << >> /\ call.ok
  /\ Len(call.start_strokes) = 2 /\ Len(call.end_strokes) = 1
  /\ Len(call.start_strokes[1]) < Len(call.end_strokes[1])
  /\ Len(result[1]) = 1
  /\ Len(result[1][1]) = Len(call.end_strokes[1])

\* C32: in a successful run where the snapping step finds no foreground
\* pixel, point k of a pair of strokes with equal point counts is the
\* linear blend (1 - factor) * start[k] + factor * end[k]; the strokes
\* [(0,0),(10,0),(10,10)] and [(0,10),(10,10),(10,0)] give
\* [(0,5),(10,5),(10,5)] at factor 1/2.
C32_LinearBlendWithoutSnap ==
  (result # << >> /\ call.ok /\ call.snap = << 0, 0 >>) =>
    /\ \A j \in 1..Len(result[1]) :
         Len(call.start_strokes[j]) = Len(call.end_strokes[j]) =>
           \A k \in 1..Len(result[1][j]) :
             result[1][j][k] = LinearBlend(call.start_strokes[j][k],
                                           call.end_strokes[j][k], call.factor)
    /\ (/\ call.start_strokes = << EngineStrokes.d >>
        /\ call.end_strokes = << EngineStrokes.e >>
        /\ call.factor = << 1, 2 >>)
         => result[1] = << << << 0, 5 >>, << 10, 5 >>, << 10, 5 >> >> >>

\* C32 witness: the run of the example has returned.
C32_Witness ==
  /\ result # << >> /\ call.ok /\ call.snap = << 0, 0 >>
  /\ call.start_strokes = << EngineStrokes.d >>
  /\ call.end_strokes = << EngineStrokes.e >>
  /\ call.factor = << 1, 2 >>
  /\ result[1] = << << << 0, 5 >>, << 10, 5 >>, << 10, 5 >> >> >>

\* C33: every pointer-down leads to Drawing, every pointer-up leads to Idle
\* with an empty accumulator, and a pointer-move or pointer-up received
\* while Idle changes neither the capture state nor the accumulator, the
\* Working Buffer, the keyframe map or the history.
C33_CaptureStateMachine ==
  [][ /\ \A rel \in CaptureSamples : start_stroke(rel) => is_drawing'
      /\ end_stroke => (~is_drawing' /\ current_stroke' = << >>)
      /\ (~is_drawing /\ (IdleMove \/ end_stroke_idle)) =>
            UNCHANGED << is_drawing, current_stroke, strokes, keyframes, history >>
    ]_vars

\* C33 witness: a press outside the surface with the eraser, a release, and
\* a motion event while Idle have run; the capture state is Idle and the
\* accumulator empty.
C33_Witness ==
  /\ LogEnds(<< "continue_stroke_idle" >>) /\ steps >= 4
  /\ current_tool = "eraser" /\ drag.tool = "eraser" /\ drag.done
  /\ ~is_drawing /\ current_stroke = << >>

\* C34: whenever the capture state is Idle and no playback is running, the
\* Frame stored under the current keyframe equals the Working Buffer (an
\* index without a Frame counting as the empty Frame).
C34_FrameEqualsBuffer ==
  (~is_drawing /\ ~animation_running) => FrameOf(keyframes, current_keyframe) = strokes

\* The handler before the last undo left more than one entry on the
\* history, so that undo was no no-op: a stroke commit, a redo, or the end
\* of an eraser drag that pushed a snapshot.
UndoWasEffective ==
  /\ Len(oplog) >= 2
  /\ \/ oplog[Len(oplog) - 1].op \in { "commit", "redo" }
     \/ /\ oplog[Len(oplog) - 1].op = "end_stroke"
        /\ drag.tool = "eraser" /\ drag.done /\ drag.snaps > 0

\* C35: an undo that is no no-op, immediately followed by redo, leaves the
\* Working Buffer exactly as it was before the undo.
C35_UndoRedoRestores ==
  [][ (redo /\ LogEnds(<< "undo" >>) /\ UndoWasEffective)
        => strokes' = oplog[Len(oplog)].pre
    ]_vars

\* C36: an interpolation in which every engine run succeeds, with a count
\* of at least 1, leaves the Frames stored under start and under end
\* unchanged and writes only keyframe indices strictly between them.
C36_InterpolateKeepsEndpoints ==
  [][ \A inp \in InterpInputs, snap \in SnapShifts :
        (/\ EngineRuns(inp) /\ IntOf[inp[3]] >= 1
         /\ interpolate_frames(inp[1], inp[2], inp[3], 0, snap))
          => LET start == IntOf[inp[1]]
                 end == IntOf[inp[2]]
             IN  /\ keyframes'[start] = keyframes[start]
                 /\ keyframes'[end] = keyframes[end]
                 /\ \A k \in DOMAIN keyframes' :
                      (k \notin DOMAIN keyframes \/ keyframes'[k] # keyframes[k])
                        => (start < k /\ k < end)
    ]_vars

\* C37: a scheduled show_frame call whose playback has been stopped, when it
\* fires, renders nothing and schedules no further call, also when
\* play_animation ran again before it fired: it only leaves the queue of
\* scheduled calls.
C37_StoppedTickIsDead ==
  [][ (show_frame /\ pending # << >> /\ Head(pending).stopped)
        => /\ pending' = Tail(pending)
           /\ UNCHANGED << animation_running, current_keyframe, strokes >>
    ]_vars

\* C38: every point of every stroke the pencil has committed lies in the
\* rectangle [0, canvas_width] x [0, canvas_height], whatever the drag did:
\* started outside the surface, left it, or ended outside it.
C38_CommittedPointsOnSurface ==
  \A i \in 1..Len(strokes) : \A j \in 1..Len(strokes[i]) :
    /\ 0 <= strokes[i][j][1] /\ strokes[i][j][1] <= canvas_width
    /\ 0 <= strokes[i][j][2] /\ strokes[i][j][2] <= canvas_height

\* The Frames stored under the keyframes other than the current one are the
\* same before and after the step.
OtherFramesUnchanged ==
  \A k \in (DOMAIN keyframes \cup DOMAIN keyframes') \ { current_keyframe } :
    /\ k \in DOMAIN keyframes /\ k \in DOMAIN keyframes'
    /\ keyframes'[k] = keyframes[k]

\* C39: a stroke commit, an application of the eraser, undo, redo, paste and
\* clear, done while keyframe k is current, leave the Frame stored under
\* every keyframe other than k as it was.
C39_OtherFramesUnchanged ==
  [][ (\/ Pointer(FrameSamples)
       \/ undo \/ redo \/ paste_strokes \/ clear_canvas)
        => OtherFramesUnchanged
    ]_vars

\* A stroke has just been committed to a keyframe while another keyframe
\* holds strokes.
C39_Witness ==
  /\ LogEnds(<< "commit" >>)
  /\ \E k \in DOMAIN keyframes : k # current_keyframe /\ keyframes[k] # << >>
====
